---- MODULE Spec2Model ----
(***************************************************************************)
(* Model of the Mafia game server: one room of the room registry, its      *)
(* game in the game service, the per-room phase timers and ticker          *)
(* goroutines, and the disconnect / reconnect-timeout bookkeeping.         *)
(*                                                                         *)
(* The server state is held in one record-valued variable `st`; every Go   *)
(* function is an operator from a state record to the SET of state records *)
(* it can produce (Go map iteration order and rand.Shuffle make some of    *)
(* them nondeterministic).  A handler is the composition of the operators  *)
(* of the functions it calls, so an action is one whole handler.           *)
(***************************************************************************)
EXTENDS Integers, Sequences, FiniteSets, TLC

VARIABLES st, last

vars == <<st, last>>

(***************************************************************************)
(* Program constants                                                       *)
(***************************************************************************)
MinPlayers == 6

Players == 1..MinPlayers

\* entity.MaxPlayers
MaxPlayers == 12

\* the ids given to connections (a connection and its player share the id):
\* enough of them to fill a room and leave one outside
Clients == 1..(MaxPlayers + 1)

\* the empty player id "" (no target / skip)
NoTarget == 0

\* marks a key that is absent from a Go map
Unset == -1

RoleVillager == "villager"
RoleMafia == "mafia"
RoleGodfather == "godfather"
RoleDoctor == "doctor"
RoleDetective == "detective"

TeamTown == "town"
TeamMafia == "mafia"
NoTeam == ""

PhaseRoleReveal == "role_reveal"
PhaseNight == "night"
PhaseNightResult == "night_result"
PhaseDay == "day"
PhaseDayResult == "day_result"
PhaseGameOver == "game_over"
\* no Game object has been created yet
PhaseNone == "none"

RoomStateWaiting == "waiting"
RoomStatePlaying == "playing"
RoomStateEnded == "ended"

PlayerStatusAlive == "alive"
PlayerStatusDead == "dead"

(***************************************************************************)
(* Bounds of the model                                                     *)
(***************************************************************************)
\* transitionToNight is not taken once Round has reached MaxRound
MaxRound == 3

\* number of connections that drop or leave the room in one behaviour
MaxDepartures == 1

\* number of start_game messages accepted in one behaviour
MaxStarts == 1

\* number of outcomes of rand.Shuffle that are explored
NumShuffles == 1


(***************************************************************************)
(* entity.Role                                                             *)
(***************************************************************************)
GetTeam(r) == IF r \in {RoleMafia, RoleGodfather} THEN TeamMafia ELSE TeamTown

CanActAtNight(r) == r \in {RoleMafia, RoleGodfather, RoleDoctor, RoleDetective}

(***************************************************************************)
(* entity.GameSettings                                                     *)
(***************************************************************************)
DefaultSettings ==
    [villagers |-> 3, mafia |-> 2, godfather |-> 0, doctor |-> 1, detective |-> 1]

\* settings a host can have installed with update_settings before the start
GodfatherSettings ==
    [villagers |-> 2, mafia |-> 1, godfather |-> 1, doctor |-> 1, detective |-> 1]

SoloSettings ==
    [villagers |-> 3, mafia |-> 1, godfather |-> 0, doctor |-> 1, detective |-> 1]

SettingsChoices == {DefaultSettings, SoloSettings}

Repeat(x, n) == [i \in 1..n |-> x]

\* the role pool built by assignRoles for n players
RolePool(s, n) ==
    LET named == Repeat(RoleMafia, s.mafia) \o Repeat(RoleGodfather, s.godfather)
                 \o Repeat(RoleDoctor, s.doctor) \o Repeat(RoleDetective, s.detective)
        villagerCount == n - Len(named)
    IN  named \o Repeat(RoleVillager, IF villagerCount > 0 THEN villagerCount ELSE 0)

\* the k-th explored outcome of rand.Shuffle on a pool of length n, as the
\* permutation i |-> position of the pool given to the i-th player
Shuffle(k, n) == [i \in 1..n |-> ((i - 1 + 2 * (k - 1)) % n) + 1]

(***************************************************************************)
(* Absent values                                                           *)
(***************************************************************************)
NilNightActions == [nil |-> TRUE]
NilDayVotes == [nil |-> TRUE]
NilNightResult == [nil |-> TRUE]
NilDayResult == [nil |-> TRUE]

\* callbacks of the one-shot timers kept in phaseTimers
CbToNight == "transitionToNight"
CbToDay == "transitionToDay"
CbResolveDay == "resolveDay"
CbDummy == "dummy"
Callbacks == {CbToNight, CbToDay, CbResolveDay}

NoTimer == [cb |-> "none", armed |-> FALSE]

(***************************************************************************)
(* Initial state: a room in the lobby with MinPlayers members, all ready,  *)
(* player 1 the host (first joiner), no game.                              *)
(***************************************************************************)
InitState(settings) ==
    [ \* entity.Room
      players |-> Players,
      playerOrder |-> [i \in 1..MinPlayers |-> i],
      isHost |-> {1},
      isReady |-> Players,
      isConnected |-> Players,
      nickname |-> [p \in Clients |-> p],
      status |-> [p \in Clients |-> PlayerStatusAlive],
      roomState |-> RoomStateWaiting,
      settings |-> settings,
      \* RoomService.disconnected (ids with a record and an armed timer)
      disconnected |-> {},
      \* clients of the hub whose RoomCode is this room
      attached |-> Players,
      \* GameService.games and the Game object
      registered |-> FALSE,
      gameId |-> 0,
      phase |-> PhaseNone,
      round |-> 0,
      roles |-> [p \in Clients |-> ""],
      nightActions |-> NilNightActions,
      dayVotes |-> NilDayVotes,
      lastNightResult |-> NilNightResult,
      lastDayResult |-> NilDayResult,
      winner |-> NoTeam,
      \* GameService.phaseTimers[room], timers armed but no longer in the map
      phaseTimer |-> NoTimer,
      looseTimers |-> [c \in Callbacks |-> 0],
      \* GameService.timerCancels[room] and the ticker goroutines
      timerCancel |-> FALSE,
      looseTickers |-> 0,
      staleTickers |-> 0,
      \* an unrecovered panic ended the process
      crashed |-> FALSE,
      \* history: targets in the order of their first mafia vote this night
      voteOrder |-> <<>>,
      \* history: players whose night action was accepted this night
      acted |-> {},
      \* history: number of connections dropped or left
      departures |-> 0 ]


(***************************************************************************)
(* entity.Room                                                             *)
(***************************************************************************)
GetPlayer(s, p) == p \in s.players

PlayerCount(s) == Cardinality(s.players)

AllReady(s) == PlayerCount(s) >= MinPlayers /\ s.players \subseteq s.isReady

\* the players GetHost can return (it returns the first host it iterates to)
GetHost(s) == s.players \cap s.isHost

\* the sequence without its first occurrence of p
RemoveFirst(seq, p) ==
    IF \A i \in 1..Len(seq) : seq[i] # p THEN seq
    ELSE LET i == CHOOSE i \in 1..Len(seq) :
                    seq[i] = p /\ \A j \in 1..(i - 1) : seq[j] # p
         IN  SubSeq(seq, 1, i - 1) \o SubSeq(seq, i + 1, Len(seq))

\* Room.RemovePlayer of a member p.  The host flag goes to PlayerOrder[0];
\* when that id is not a key of Players the nil *Player is dereferenced
\* (the process panics)
RemovePlayer(s, p) ==
    LET order == RemoveFirst(s.playerOrder, p)
        rest == s.players \ {p}
        transfer == p \in s.isHost /\ rest # {}
        removed == [s EXCEPT !.players = rest,
                             !.playerOrder = order,
                             !.isHost = s.isHost \ {p}]
    IN  IF ~transfer THEN removed
        ELSE IF order[1] \notin rest THEN [removed EXCEPT !.crashed = TRUE]
        ELSE [removed EXCEPT !.isHost = (s.isHost \ {p}) \cup {order[1]}]

(***************************************************************************)
(* entity.Game                                                             *)
(***************************************************************************)
IsAlive(s, p) == GetPlayer(s, p) /\ s.status[p] = PlayerStatusAlive

getAlivePlayerCount(s) == Cardinality({p \in s.players : IsAlive(s, p)})

\* Game.assignRoles with the k-th outcome of the shuffle
assignRoles(s, k) ==
    LET playerIDs == SelectSeq(s.playerOrder, LAMBDA x : x \in s.players)
        n == Len(playerIDs)
        pool == RolePool(s.settings, n)
        perm == Shuffle(k, Len(pool))
    IN  [p \in DOMAIN s.roles |->
            IF \E i \in 1..n : playerIDs[i] = p
            THEN LET i == CHOOSE i \in 1..n :
                            playerIDs[i] = p /\ \A j \in (i + 1)..n : playerIDs[j] # p
                 IN  pool[perm[i]]
            ELSE ""]

NewGame(s, k) ==
    [s EXCEPT !.phase = PhaseRoleReveal,
              !.round = 1,
              !.roles = assignRoles(s, k),
              !.nightActions = NilNightActions,
              !.dayVotes = NilDayVotes,
              !.lastNightResult = NilNightResult,
              !.lastDayResult = NilDayResult,
              !.winner = NoTeam,
              !.roomState = RoomStatePlaying,
              !.gameId = s.gameId + 1,
              !.voteOrder = <<>>,
              !.acted = {}]

StartNight(s) ==
    [s EXCEPT !.phase = PhaseNight,
              !.nightActions = [nil |-> FALSE,
                                mafiaTarget |-> NoTarget,
                                mafiaVotes |-> [p \in Players |-> Unset],
                                doctorTarget |-> NoTarget,
                                detectiveTarget |-> NoTarget],
              !.voteOrder = <<>>,
              !.acted = {}]

\* the error Game.SubmitNightAction returns, "" when the action is accepted
NightActionError(s, p, t) ==
    IF s.phase # PhaseNight THEN "invalid_phase"
    ELSE IF ~GetPlayer(s, p) THEN "player_not_found"
    ELSE IF s.status[p] # PlayerStatusAlive THEN "player_dead"
    ELSE IF ~CanActAtNight(s.roles[p]) THEN "invalid_phase"
    ELSE IF t = NoTarget THEN ""
    ELSE IF ~GetPlayer(s, t) THEN "invalid_target"
    ELSE IF s.status[t] # PlayerStatusAlive THEN "invalid_target"
    ELSE IF s.roles[p] \in {RoleMafia, RoleGodfather} /\ GetTeam(s.roles[t]) = TeamMafia
         THEN "mafia_target_mafia"
    ELSE IF s.roles[p] = RoleDetective /\ t = p THEN "cannot_target_self"
    ELSE ""

Max(S) == CHOOSE x \in S : \A y \in S : y <= x

MafiaTargetOutcomes_plurality(s, votes) ==
    LET voters == {m \in Players : votes[m] # Unset /\ votes[m] # NoTarget}
        voteCounts == [t \in Players |-> Cardinality({m \in voters : votes[m] = t})]
        voted == {t \in Players : voteCounts[t] > 0}
    IN  IF voted = {} THEN {s.nightActions.mafiaTarget}
        ELSE {t \in voted : voteCounts[t] = Max({voteCounts[x] : x \in voted})}

\* Game.resolveMafiaTarget: the values MafiaTarget can have afterwards.  The
\* loops range over Go maps, whose iteration order is unspecified: the last
\* godfather vote iterated wins, else the first target iterated among those
\* with the largest count; with no non-empty vote the field is left alone.
MafiaTargetOutcomes(s, votes) ==
    LET voters == {m \in Players : votes[m] # Unset /\ votes[m] # NoTarget}
        voteCounts == [t \in Players |-> Cardinality({m \in voters : votes[m] = t})]
        godfatherVotes == {votes[m] : m \in {x \in voters : s.roles[x] = RoleGodfather}}
        voted == {t \in Players : voteCounts[t] > 0}
    IN  IF godfatherVotes # {} THEN godfatherVotes
        ELSE IF voted = {} THEN {s.nightActions.mafiaTarget}
        ELSE {t \in voted : voteCounts[t] = Max({voteCounts[x] : x \in voted})}

resolveMafiaTarget(s) ==
    {[s EXCEPT !.nightActions.mafiaTarget = t] :
        t \in MafiaTargetOutcomes(s, s.nightActions.mafiaVotes)}

\* history: the order in which targets received their first vote this night
NoteVote(order, t) ==
    IF t = NoTarget \/ (\E i \in 1..Len(order) : order[i] = t) THEN order
    ELSE Append(order, t)

\* Game.SubmitNightAction, for an action that passed validation
RecordNightAction(s, p, t) ==
    LET s1 == [s EXCEPT !.acted = s.acted \cup {p}]
    IN  IF s.roles[p] \in {RoleMafia, RoleGodfather}
        THEN resolveMafiaTarget([s1 EXCEPT !.nightActions.mafiaVotes[p] = t,
                                           !.voteOrder = NoteVote(s.voteOrder, t)])
        ELSE IF s.roles[p] = RoleDoctor
        THEN {[s1 EXCEPT !.nightActions.doctorTarget = t]}
        ELSE IF s.roles[p] = RoleDetective
        THEN {[s1 EXCEPT !.nightActions.detectiveTarget = t]}
        ELSE {s1}

isFirstNight_roundOne(s) == s.round = 1

\* isFirstNight := g.LastDayResult == nil
isFirstNight(s) == s.lastDayResult.nil

wasSaved_never(mafiaTarget, doctorTarget) == FALSE

\* the test `mafiaTarget == doctorTarget` of Game.ResolveNight
wasSaved(mafiaTarget, doctorTarget) == mafiaTarget = doctorTarget

isMafia_byTeam(targetRole) == GetTeam(targetRole) = TeamMafia

\* isMafia := targetRole == RoleMafia
isMafia(targetRole) == targetRole = RoleMafia

\* Game.ResolveNight; a nil NightActions is dereferenced (the process panics)
ResolveNight(s) ==
    IF s.nightActions.nil
    THEN [s EXCEPT !.phase = PhaseNightResult, !.crashed = TRUE]
    ELSE
    LET mafiaTarget == s.nightActions.mafiaTarget
        doctorTarget == s.nightActions.doctorTarget
        detTarget == s.nightActions.detectiveTarget
        process == mafiaTarget # NoTarget /\ ~isFirstNight(s)
        saved == process /\ wasSaved(mafiaTarget, doctorTarget)
        dies == process /\ ~wasSaved(mafiaTarget, doctorTarget) /\ GetPlayer(s, mafiaTarget)
        investigated == detTarget # NoTarget /\ GetPlayer(s, detTarget)
        result == [nil |-> FALSE,
                   killedID |-> IF dies THEN mafiaTarget ELSE NoTarget,
                   wasSaved |-> saved,
                   hasDetectiveResult |-> investigated,
                   targetID |-> IF investigated THEN detTarget ELSE NoTarget,
                   isMafia |-> investigated /\ isMafia(s.roles[detTarget])]
    IN  [s EXCEPT !.phase = PhaseNightResult,
                  !.status = IF dies
                             THEN [s.status EXCEPT ![mafiaTarget] = PlayerStatusDead]
                             ELSE s.status,
                  !.lastNightResult = result]

StartDay(s) ==
    [s EXCEPT !.phase = PhaseDay,
              !.dayVotes = [nil |-> FALSE, votes |-> [p \in Players |-> Unset]]]

\* the error Game.SubmitDayVote returns, "" when the vote is accepted
DayVoteError(s, p, t) ==
    IF s.phase # PhaseDay THEN "invalid_phase"
    ELSE IF ~GetPlayer(s, p) THEN "player_not_found"
    ELSE IF s.status[p] # PlayerStatusAlive THEN "player_dead"
    ELSE IF t = NoTarget THEN ""
    ELSE IF ~GetPlayer(s, t) THEN "invalid_target"
    ELSE IF s.status[t] # PlayerStatusAlive THEN "invalid_target"
    ELSE IF t = p THEN "cannot_target_self"
    ELSE ""

RecordDayVote(s, p, t) == [s EXCEPT !.dayVotes.votes[p] = t]

\* the VoteCounts of Game.ResolveDay
DayVoteCounts(votes) ==
    [t \in Players |-> Cardinality({v \in Players : votes[v] = t})]

majorityNeeded(s) == (getAlivePlayerCount(s) \div 2) + 1

\* Game.ResolveDay: the states it can produce (the top target is the first
\* one iterated among those with the largest count); a nil DayVotes is
\* dereferenced (the process panics)
ResolveDay(s) ==
    IF s.dayVotes.nil
    THEN {[s EXCEPT !.phase = PhaseDayResult, !.crashed = TRUE]}
    ELSE
    LET counts == DayVoteCounts(s.dayVotes.votes)
        voted == {t \in Players : counts[t] > 0}
        maxVotes == IF voted = {} THEN 0 ELSE Max({counts[t] : t \in voted})
        tops == IF voted = {} THEN {NoTarget} ELSE {t \in voted : counts[t] = maxVotes}
        Outcome(topTarget) ==
            LET reached == maxVotes >= majorityNeeded(s)
                elim == reached /\ topTarget # NoTarget /\ GetPlayer(s, topTarget)
                result == [nil |-> FALSE,
                           eliminatedID |-> IF elim THEN topTarget ELSE NoTarget,
                           eliminatedRole |-> IF elim THEN s.roles[topTarget] ELSE "",
                           noMajority |-> ~reached]
            IN  [s EXCEPT !.phase = PhaseDayResult,
                          !.status = IF elim
                                     THEN [s.status EXCEPT ![topTarget] = PlayerStatusDead]
                                     ELSE s.status,
                          !.lastDayResult = result]
    IN  {Outcome(t) : t \in tops}

mafiaAlive(s) ==
    Cardinality({p \in s.players : IsAlive(s, p) /\ GetTeam(s.roles[p]) = TeamMafia})

townAlive(s) ==
    Cardinality({p \in s.players : IsAlive(s, p) /\ GetTeam(s.roles[p]) # TeamMafia})

CheckWinCondition_outnumber(s) ==
    IF mafiaAlive(s) > townAlive(s) THEN TeamMafia
    ELSE IF mafiaAlive(s) = 0 THEN TeamTown
    ELSE NoTeam

\* Game.CheckWinCondition: the winner, NoTeam when the game goes on
CheckWinCondition(s) ==
    IF mafiaAlive(s) >= townAlive(s) THEN TeamMafia
    ELSE IF mafiaAlive(s) = 0 THEN TeamTown
    ELSE NoTeam

EndGame(s, winner) ==
    [s EXCEPT !.phase = PhaseGameOver,
              !.winner = winner,
              !.roomState = RoomStateEnded]

AllNightActionsComplete(s) ==
    \A p \in s.players :
        (s.status[p] = PlayerStatusAlive /\ CanActAtNight(s.roles[p])) =>
            CASE s.roles[p] \in {RoleMafia, RoleGodfather} ->
                    s.nightActions.mafiaVotes[p] # Unset
              [] s.roles[p] = RoleDoctor -> s.nightActions.doctorTarget # NoTarget
              [] s.roles[p] = RoleDetective -> s.nightActions.detectiveTarget # NoTarget

AllDayVotesComplete(s) ==
    \A p \in s.players :
        s.status[p] = PlayerStatusAlive => s.dayVotes.votes[p] # Unset

(***************************************************************************)
(* service.GameService: timers                                             *)
(*                                                                         *)
(* phaseTimer is phaseTimers[room]: the callback of the timer stored there *)
(* and whether that timer is still armed.  The "dummy" timer stored by     *)
(* startPhaseTimer has an empty callback, so its firing is not modelled    *)
(* and it is never counted as armed.  looseTimers counts the armed timers  *)
(* whose map entry was deleted without Stop.  timerCancel is               *)
(* timerCancels[room]; the ticker goroutine it belongs to is running.      *)
(* staleTickers counts the ticker goroutines whose cancel channel has been *)
(* closed but which have not yet returned: such a goroutine may already    *)
(* have received its tick, or finds both cases of its select ready.        *)
(* looseTickers counts running tickers whose map entry was deleted by      *)
(* another ticker.                                                         *)
(***************************************************************************)
Stopped(s) == [s EXCEPT !.phaseTimer.armed = FALSE]

\* close(cancel) of the channel in timerCancels, when there is one
CloseCancel(s) ==
    IF s.timerCancel
    THEN [s EXCEPT !.timerCancel = FALSE, !.staleTickers = s.staleTickers + 1]
    ELSE s

schedulePhaseTransition(s, cb) ==
    [s EXCEPT !.phaseTimer = [cb |-> cb, armed |-> TRUE]]

startPhaseTimer(s) ==
    [CloseCancel(Stopped(s)) EXCEPT !.timerCancel = TRUE,
                                    !.phaseTimer = [cb |-> CbDummy, armed |-> FALSE]]

cancelPhaseTimer(s) == [CloseCancel(s) EXCEPT !.phaseTimer = NoTimer]

startDayTimer(s) ==
    [CloseCancel(s) EXCEPT !.phaseTimer = [cb |-> CbResolveDay, armed |-> TRUE]]

\* the two delete() calls of an expiring ticker goroutine: the entries are
\* removed whatever they hold, and nothing is stopped or closed
DeleteEntries(s) ==
    [s EXCEPT !.phaseTimer = NoTimer,
              !.looseTimers = IF s.phaseTimer.armed
                              THEN [s.looseTimers EXCEPT ![s.phaseTimer.cb] = @ + 1]
                              ELSE s.looseTimers,
              !.timerCancel = FALSE,
              !.looseTickers = IF s.timerCancel THEN s.looseTickers + 1
                               ELSE s.looseTickers]

(***************************************************************************)
(* service.GameService: game flow                                          *)
(***************************************************************************)
endGame(s, winner) ==
    IF ~s.registered THEN s
    ELSE [cancelPhaseTimer(EndGame(s, winner)) EXCEPT !.registered = FALSE]

\* the part of resolveNight / resolveDay after the entity call
AfterResolve(s, cb) ==
    IF s.crashed THEN s
    ELSE IF CheckWinCondition(s) # NoTeam THEN endGame(s, CheckWinCondition(s))
    ELSE schedulePhaseTransition(s, cb)

resolveNight(s) ==
    IF ~s.registered THEN {s}
    ELSE {AfterResolve(ResolveNight(s), CbToDay)}

resolveDay(s) ==
    IF ~s.registered THEN {s}
    ELSE {AfterResolve(r, CbToNight) : r \in ResolveDay(s)}

transitionToNight(s) ==
    IF ~s.registered THEN s
    ELSE startPhaseTimer([StartNight(s) EXCEPT !.round = s.round + 1])

transitionToDay(s) ==
    IF ~s.registered THEN s
    ELSE startDayTimer(StartDay(s))

StartGameError_countFirst(s, p) ==
    IF PlayerCount(s) < MinPlayers THEN "not_enough_players"
    ELSE IF p \notin GetHost(s) THEN "not_host"
    ELSE IF ~AllReady(s) THEN "not_all_ready"
    ELSE ""

\* GameService.StartGame by player p with the k-th shuffle outcome
StartGameError(s, p) ==
    IF p \notin GetHost(s) THEN "not_host"
    ELSE IF PlayerCount(s) < MinPlayers THEN "not_enough_players"
    ELSE IF ~AllReady(s) THEN "not_all_ready"
    ELSE ""

StartGame(s, k) ==
    schedulePhaseTransition([NewGame(s, k) EXCEPT !.registered = TRUE], CbToNight)

SubmitNightAction(s, p, t) ==
    UNION {IF AllNightActionsComplete(r)
           THEN resolveNight(cancelPhaseTimer(r))
           ELSE {r} : r \in RecordNightAction(s, p, t)}

SubmitDayVote(s, p, t) ==
    LET r == RecordDayVote(s, p, t)
    IN  IF AllDayVotesComplete(r) THEN resolveDay(cancelPhaseTimer(r)) ELSE {r}

\* the callback of a fired one-shot timer
RunCallback(s, cb) ==
    CASE cb = CbToNight -> {transitionToNight(s)}
      [] cb = CbToDay -> {transitionToDay(s)}
      [] cb = CbResolveDay -> resolveDay(s)

TickerExpired_withoutOnExpire(s) ==
    {[DeleteEntries(s) EXCEPT !.looseTickers = s.looseTickers]}

\* the ticker goroutine of timerCancels runs its expiry branch: it deletes
\* both map entries and calls onExpire, which is resolveNight
TickerExpired(s) ==
    resolveNight([DeleteEntries(s) EXCEPT !.looseTickers = s.looseTickers])

(***************************************************************************)
(* service.RoomService and ws.Router: leaving, disconnecting               *)
(***************************************************************************)
LeaveRoom(s, p) == RemovePlayer(s, p)

MarkPlayerDisconnected(s, p) ==
    [s EXCEPT !.isConnected = s.isConnected \ {p},
              !.disconnected = s.disconnected \cup {p}]

CanMarkDisconnected(s, p) == GetPlayer(s, p) /\ s.roomState = RoomStatePlaying

\* Router.handleReconnectTimeout, after RoomService deleted the record
handleReconnectTimeout(s, p) ==
    IF ~GetPlayer(s, p) THEN s
    ELSE LET r == LeaveRoom(s, p)
         IN  IF r.registered /\ CheckWinCondition(r) # NoTeam
             THEN EndGame(r, CheckWinCondition(r))
             ELSE r

(***************************************************************************)
(* Timing assumption: a ticker goroutine whose cancel channel is closed    *)
(* returns, or runs its expiry branch, before the next timer of the room   *)
(* (3 s or more away) fires.                                               *)
(***************************************************************************)
Settled(s) == s.staleTickers = 0

Running(s) == ~s.crashed

(***************************************************************************)
(* Actions.  `last` records the handler that ran and whether it resolved   *)
(* a night or a day.                                                       *)
(***************************************************************************)
Did(op, resolved) == last' = [op |-> op, resolved |-> resolved]


\* start_game from the connection of player p
StartGameMsg(p) ==
    /\ Running(st)
    /\ p \in st.attached
    /\ st.gameId < MaxStarts
    /\ StartGameError(st, p) = ""
    /\ \E k \in 1..NumShuffles : st' = StartGame(st, k)
    /\ Did("start_game", "none")

\* night_action {target_id: t} from the connection of player p
NightActionMsg(p, t) ==
    /\ Running(st)
    /\ p \in st.attached
    /\ st.registered
    /\ NightActionError(st, p, t) = ""
    /\ st' \in SubmitNightAction(st, p, t)
    /\ Did("night_action", IF st'.phase # PhaseNight THEN "night" ELSE "none")

\* day_vote {target_id: t} from the connection of player p
DayVoteMsg(p, t) ==
    /\ Running(st)
    /\ p \in st.attached
    /\ st.registered
    /\ DayVoteError(st, p, t) = ""
    /\ st' \in SubmitDayVote(st, p, t)
    /\ Did("day_vote", IF st'.phase # PhaseDay THEN "day" ELSE "none")

\* leave_room from the connection of player p (Router.handleLeaveRoom)
LeaveRoomMsg(p) ==
    /\ Running(st)
    /\ p \in st.attached
    /\ st.departures < MaxDepartures
    /\ GetPlayer(st, p)
    /\ st' = [LeaveRoom(st, p) EXCEPT !.attached = st.attached \ {p},
                                      !.departures = st.departures + 1]
    /\ Did("leave_room", "none")

\* the connection of player p drops (Client.ReadPump, Router.HandleDisconnect)
Disconnect(p) ==
    /\ Running(st)
    /\ p \in st.attached
    /\ st.departures < MaxDepartures
    /\ LET r == IF CanMarkDisconnected(st, p) THEN MarkPlayerDisconnected(st, p)
                ELSE IF GetPlayer(st, p) THEN LeaveRoom(st, p)
                ELSE st
       IN  st' = [r EXCEPT !.attached = st.attached \ {p},
                           !.departures = st.departures + 1]
    /\ Did("disconnect", "none")

\* the reconnect timer of player p fires (RoomService.handleReconnectTimeout)
ReconnectTimeout(p) ==
    /\ Running(st)
    /\ Settled(st)
    /\ p \in st.disconnected
    /\ st' = handleReconnectTimeout([st EXCEPT !.disconnected = st.disconnected \ {p}], p)
    /\ Did("reconnect_timeout", "none")

\* the timer stored in phaseTimers fires
PhaseTimerFire ==
    /\ Running(st)
    /\ Settled(st)
    /\ st.phaseTimer.armed
    /\ st.phaseTimer.cb = CbToNight => st.round < MaxRound
    /\ st' \in RunCallback(Stopped(st), st.phaseTimer.cb)
    /\ Did(st.phaseTimer.cb, IF st.phaseTimer.cb = CbResolveDay /\ st.registered
                             THEN "day" ELSE "none")

\* an armed timer that is no longer in phaseTimers fires
LooseTimerFire(cb) ==
    /\ Running(st)
    /\ Settled(st)
    /\ st.looseTimers[cb] > 0
    /\ cb = CbToNight => st.round < MaxRound
    /\ st' \in RunCallback([st EXCEPT !.looseTimers[cb] = @ - 1], cb)
    /\ Did(cb, IF cb = CbResolveDay /\ st.registered THEN "day" ELSE "none")

\* the ticker goroutine of timerCancels reaches its deadline
TickerExpire ==
    /\ Running(st)
    /\ Settled(st)
    /\ st.timerCancel
    /\ st' \in TickerExpired(st)
    /\ Did("ticker_expire", IF st.registered THEN "night" ELSE "none")

\* a ticker goroutine whose channel was closed takes its expiry branch
StaleTickerExpire ==
    /\ Running(st)
    /\ st.staleTickers > 0
    /\ st' \in resolveNight(DeleteEntries([st EXCEPT !.staleTickers = @ - 1]))
    /\ Did("stale_ticker_expire", IF st.registered THEN "night" ELSE "none")

\* a ticker goroutine whose channel was closed returns
StaleTickerExit ==
    /\ Running(st)
    /\ st.staleTickers > 0
    /\ st' = [st EXCEPT !.staleTickers = @ - 1]
    /\ Did("ticker_exit", "none")

Init ==
    /\ st \in {InitState(s) : s \in SettingsChoices}
    /\ last = [op |-> "init", resolved |-> "none"]

\* In specification Spec the messages name few targets: night actions name
\* NightCandidate, day votes name DayCandidate, and the players of Skippers
\* also send night actions with an empty target.
NightCandidate == MinPlayers

DayCandidate == 1

Skippers == {3}

NightChoices(p) == {NightCandidate} \cup (IF p \in Skippers THEN {NoTarget} ELSE {})

DayChoices(p) == IF p = DayCandidate THEN {NoTarget} ELSE {DayCandidate}

\* the players whose connection drops or leaves in specification Spec
Departers == 1..MaxDepartures

Next ==
    \/ \E p \in Players : StartGameMsg(p)
    \/ \E p \in Players : \E t \in NightChoices(p) : NightActionMsg(p, t)
    \/ \E p \in Players : \E t \in DayChoices(p) : DayVoteMsg(p, t)
    \/ \E p \in Departers : LeaveRoomMsg(p)
    \/ \E p \in Departers : Disconnect(p)
    \/ \E p \in Players : ReconnectTimeout(p)
    \/ PhaseTimerFire
    \/ \E cb \in Callbacks : LooseTimerFire(cb)
    \/ TickerExpire
    \/ StaleTickerExpire
    \/ StaleTickerExit

Spec == Init /\ [][Next]_vars

(***************************************************************************)
(* Specification SpecNight: the game stands at the entry of a night, the   *)
(* first one or the second one after a day that eliminated player d (or    *)
(* nobody when d = NoTarget).  The entry states are computed with the      *)
(* handlers themselves, so each is a state the server reaches.  Night      *)
(* actions name any target of NightTargets, and the specification follows  *)
(* the night up to the entry of the day.                                   *)
(***************************************************************************)
Only(S) == CHOOSE x \in S : TRUE

FirstNight(s0, k) == transitionToNight(Stopped(StartGame(s0, k)))

\* nobody acts in the night, the ticker expires, the 3 s timer enters the day
QuietNightThenDay(s) == transitionToDay(Stopped(Only(TickerExpired(s))))

\* the day ends at its deadline without votes (d = NoTarget), or as soon as
\* everybody has voted for d and d has voted for nobody
DayOutcome(s, d) ==
    IF d = NoTarget THEN Only(resolveDay(Stopped(s)))
    ELSE Only(resolveDay(cancelPhaseTimer(
            [s EXCEPT !.dayVotes.votes = [p \in Players |-> IF p = d THEN NoTarget ELSE d]])))

SecondNight(s0, k, d) ==
    transitionToNight(Stopped(DayOutcome(QuietNightThenDay(FirstNight(s0, k)), d)))

NightSettings == {DefaultSettings, GodfatherSettings}

\* whom the first day eliminated: nobody, a mafia member or a villager
DayOneOutcomes == {NoTarget, 1, 5}

\* the players whose connection may send leave_room during the night
NightLeavers == {5, 6}

NightEntries ==
    UNION {{FirstNight(InitState(s), k)}
           \cup {SecondNight(InitState(s), k, d) : d \in DayOneOutcomes}
           : s \in NightSettings, k \in 1..NumShuffles}

NightTargets == {NoTarget, 2, 5, 6}

InitNight ==
    /\ st \in NightEntries
    /\ last = [op |-> "init", resolved |-> "none"]

NextNight ==
    \/ \E p \in Players, t \in NightTargets : NightActionMsg(p, t)
    \/ \E p \in NightLeavers : LeaveRoomMsg(p)
    \/ TickerExpire
    \/ StaleTickerExpire
    \/ StaleTickerExit
    \/ (st.phaseTimer.cb = CbToDay /\ PhaseTimerFire)
    \/ LooseTimerFire(CbToDay)

SpecNight == InitNight /\ [][NextNight]_vars

(***************************************************************************)
(* Specification SpecDay: the game stands at the entry of a day, the first *)
(* one or the second one after a night in which the mafia killed player v. *)
(***************************************************************************)
FirstDay(s0, k) == QuietNightThenDay(FirstNight(s0, k))

\* the first mafia-team member in player order
FirstMafia(s) ==
    s.playerOrder[CHOOSE i \in 1..Len(s.playerOrder) :
        /\ GetTeam(s.roles[s.playerOrder[i]]) = TeamMafia
        /\ \A j \in 1..(i - 1) : GetTeam(s.roles[s.playerOrder[j]]) # TeamMafia]

\* in the second night one mafia member votes v, then the ticker expires
SecondDay(s0, k, v) ==
    LET n == SecondNight(s0, k, NoTarget)
        voted == Only(RecordNightAction(n, FirstMafia(n), v))
    IN  transitionToDay(Stopped(Only(TickerExpired(voted))))

DayEntries ==
    UNION {{FirstDay(InitState(s), k)}
           \cup {SecondDay(InitState(s), k, v) :
                    v \in {q \in Players :
                            GetTeam(assignRoles(InitState(s), k)[q]) = TeamTown}}
           : s \in SettingsChoices, k \in 1..NumShuffles}

DayTargets == {NoTarget, 1, 6}

InitDay ==
    /\ st \in DayEntries
    /\ last = [op |-> "init", resolved |-> "none"]

NextDay ==
    \/ \E p \in Players, t \in DayTargets : DayVoteMsg(p, t)
    \/ \E p \in Players : LeaveRoomMsg(p)
    \/ PhaseTimerFire

SpecDay == InitDay /\ [][NextDay]_vars

(***************************************************************************)
(* Properties                                                              *)
(***************************************************************************)
PhaseEdges ==
    { <<PhaseRoleReveal, PhaseNight>>, <<PhaseNight, PhaseNightResult>>,
      <<PhaseNightResult, PhaseDay>>, <<PhaseNightResult, PhaseGameOver>>,
      <<PhaseDay, PhaseDayResult>>, <<PhaseDayResult, PhaseNight>>,
      <<PhaseDayResult, PhaseGameOver>> }

\* C1: every change of the phase of a game follows an edge of the phase
\* graph role_reveal -> night -> night_result -> (day | game_over),
\* day -> day_result -> (night | game_over); game_over has no outgoing edge,
\* so once a game is over its phase never changes again.
C1_PhaseFollowsEdges ==
    [][(st'.gameId = st.gameId /\ st'.phase # st.phase)
          => <<st.phase, st'.phase>> \in PhaseEdges]_vars

ArmedTimers(s) ==
    (IF s.phaseTimer.armed THEN 1 ELSE 0)
    + s.looseTimers[CbToNight] + s.looseTimers[CbToDay] + s.looseTimers[CbResolveDay]

LiveTickers(s) == (IF s.timerCancel THEN 1 ELSE 0) + s.looseTickers

\* C2: whenever the phase of the game is game_over, the winner is set, the
\* room is ended, no phase timer and no ticker is armed for the room, and
\* the game is not in the games registry.
C2_EndedGameIsCleanedUp ==
    st.phase = PhaseGameOver =>
        /\ st.winner # NoTeam
        /\ st.roomState = RoomStateEnded
        /\ ArmedTimers(st) = 0
        /\ LiveTickers(st) = 0
        /\ ~st.registered

\* every alive member with a night role has had a night action accepted
AllActed(s) ==
    \A p \in s.players :
        (s.status[p] = PlayerStatusAlive /\ CanActAtNight(s.roles[p])) => p \in s.acted

\* C3: when a night action has just been accepted and every alive player
\* with a night role has had an action accepted (with a target or with an
\* empty target), the night has been resolved and the ticker and the timer
\* are cancelled: the game is not left waiting in phase night.
C3_ResolvedWhenAllActed ==
    (last.op = "night_action" /\ AllActed(st)) =>
        (st.phase # PhaseNight /\ ~st.timerCancel)

\* C4: the room never has more than one armed phase timer, nor more than
\* one running ticker.
C4_OneTimerOneTicker == ArmedTimers(st) <= 1 /\ LiveTickers(st) <= 1

(***************************************************************************)
(* Properties of night resolution, checked under SpecNight                 *)
(***************************************************************************)
NightResolved == last'.resolved = "night"

\* the night with round 2 is the first one: NewGame sets Round to 1 and
\* transitionToNight increments it before every night
InFirstNight(s) == s.round = 2

\* C5: resolving the first night changes no player's status, reports an
\* empty killed_id and was_saved false whatever was submitted, and when no
\* team has won the 3 s timer it arms takes the game to the day
C5_FirstNightKillsNobody ==
    [][/\ (NightResolved /\ InFirstNight(st)) =>
            /\ st'.status = st.status
            /\ st'.lastNightResult.killedID = NoTarget
            /\ ~st'.lastNightResult.wasSaved
            /\ CheckWinCondition(st') = NoTeam =>
                    /\ st'.phase = PhaseNightResult
                    /\ st'.phaseTimer = [cb |-> CbToDay, armed |-> TRUE]
       /\ (last'.op = CbToDay /\ InFirstNight(st) /\ st.phase = PhaseNightResult) =>
            st'.phase = PhaseDay]_vars

C5_Witness ==
    /\ last.resolved = "night"
    /\ InFirstNight(st)
    /\ st.phase = PhaseNightResult
    /\ st.nightActions.mafiaTarget # NoTarget
    /\ st.nightActions.doctorTarget # st.nightActions.mafiaTarget
    /\ st.lastNightResult.killedID = NoTarget
    /\ \A p \in Players : st.status[p] = PlayerStatusAlive

OthersKeepStatus(t) == \A q \in Players \ {t} : st'.status[q] = st.status[q]

\* C6 as stated: on a later night with resolved mafia target t, the target
\* is saved when the doctor protected t, and otherwise t dies with
\* killed_id = t; nobody else changes status
C6_LaterNightKillOrSave ==
    [][(NightResolved /\ ~InFirstNight(st) /\ st'.nightActions.mafiaTarget # NoTarget) =>
        LET t == st'.nightActions.mafiaTarget
            r == st'.lastNightResult
        IN  IF t = st'.nightActions.doctorTarget
            THEN r.wasSaved /\ r.killedID = NoTarget /\ st'.status = st.status
            ELSE /\ st'.status[t] = PlayerStatusDead
                 /\ r.killedID = t
                 /\ ~r.wasSaved
                 /\ OthersKeepStatus(t)]_vars

\* C6 amended: the same, for a target that is still a member of the room
\* when the night is resolved; a target that has left the room is not
\* killed: no status changes, killed_id is empty and was_saved is false
C6_LaterNightKillOrSaveMember ==
    [][(NightResolved /\ ~InFirstNight(st) /\ st'.nightActions.mafiaTarget # NoTarget) =>
        LET t == st'.nightActions.mafiaTarget
            r == st'.lastNightResult
        IN  IF t = st'.nightActions.doctorTarget
            THEN r.wasSaved /\ r.killedID = NoTarget /\ st'.status = st.status
            ELSE IF GetPlayer(st', t)
            THEN /\ st'.status[t] = PlayerStatusDead
                 /\ r.killedID = t
                 /\ ~r.wasSaved
                 /\ OthersKeepStatus(t)
            ELSE /\ st'.status = st.status
                 /\ r.killedID = NoTarget
                 /\ ~r.wasSaved]_vars

C6_Witness ==
    /\ last.resolved = "night"
    /\ ~InFirstNight(st)
    /\ st.nightActions.mafiaTarget # NoTarget
    /\ st.nightActions.doctorTarget # NoTarget
    /\ st.nightActions.doctorTarget # st.nightActions.mafiaTarget
    /\ st.lastNightResult.killedID = st.nightActions.mafiaTarget
    /\ st.status[st.lastNightResult.killedID] = PlayerStatusDead

\* the non-empty votes recorded for this night
NonEmptyVoters(s) ==
    {m \in Players : s.nightActions.mafiaVotes[m] \notin {Unset, NoTarget}}

GodfatherVoters(s) == {m \in NonEmptyVoters(s) : s.roles[m] = RoleGodfather}

\* C7: whenever a godfather has a non-empty vote recorded, the resolved mafia
\* target is the godfather's target, whatever the other mafia voted and in
\* whatever order; when such a night (not the first) is resolved and the
\* doctor protected somebody else, the godfather's target, if still in the
\* room, is the one killed and was_saved is false
C7_GodfatherVoteDecides ==
    [][(~st'.nightActions.nil) =>
        \A g \in GodfatherVoters(st') :
            LET t == st'.nightActions.mafiaVotes[g]
            IN  /\ st'.nightActions.mafiaTarget = t
                /\ (/\ NightResolved
                    /\ ~InFirstNight(st)
                    /\ st'.nightActions.doctorTarget # t
                    /\ GetPlayer(st', t)) =>
                        /\ st'.lastNightResult.killedID = t
                        /\ ~st'.lastNightResult.wasSaved
                        /\ st'.status[t] = PlayerStatusDead]_vars

\* a mafia member voted v1, the godfather voted v2, the doctor protected v1:
\* v2 is dead and was not saved
C7_Witness ==
    /\ last.resolved = "night"
    /\ ~InFirstNight(st)
    /\ \E g \in GodfatherVoters(st), m \in NonEmptyVoters(st) :
        /\ st.roles[m] = RoleMafia
        /\ st.nightActions.mafiaVotes[m] # st.nightActions.mafiaVotes[g]
        /\ st.nightActions.doctorTarget = st.nightActions.mafiaVotes[m]
        /\ st.lastNightResult.killedID = st.nightActions.mafiaVotes[g]
        /\ ~st.lastNightResult.wasSaved
        /\ st.status[st.nightActions.mafiaVotes[g]] = PlayerStatusDead

\* the position of target t in the order of first votes
FirstVoteAt(s, t) == CHOOSE i \in 1..Len(s.voteOrder) : s.voteOrder[i] = t

\* the target with the most non-empty votes, ties going to the target whose
\* first vote arrived earliest
EarliestTop(s) ==
    LET count(t) == Cardinality({m \in NonEmptyVoters(s) : s.nightActions.mafiaVotes[m] = t})
        voted == {s.nightActions.mafiaVotes[m] : m \in NonEmptyVoters(s)}
        tops == {t \in voted : \A u \in voted : count(u) <= count(t)}
    IN  CHOOSE t \in tops : \A u \in tops : FirstVoteAt(s, t) <= FirstVoteAt(s, u)

\* C8: when no godfather vote is recorded, the resolved mafia target is the
\* target with the most non-empty votes, and among targets with equally many
\* votes the one whose first vote arrived earliest
C8_TieGoesToEarliestVote ==
    (~st.nightActions.nil /\ NonEmptyVoters(st) # {} /\ GodfatherVoters(st) = {})
        => st.nightActions.mafiaTarget = EarliestTop(st)

C10_MajorityEliminates ==
    [][(last'.resolved = "day") =>
        LET counts == DayVoteCounts(st'.dayVotes.votes)
            winners == {t \in Players : counts[t] >= (getAlivePlayerCount(st) \div 2) + 1}
            r == st'.lastDayResult
        IN  IF winners # {}
            THEN /\ r.eliminatedID \in winners
                 /\ st'.status[r.eliminatedID] = PlayerStatusDead
                 /\ r.eliminatedRole = st'.roles[r.eliminatedID]
                 /\ ~r.noMajority
                 /\ OthersKeepStatus(r.eliminatedID)
            ELSE /\ r.noMajority
                 /\ r.eliminatedID = NoTarget
                 /\ st'.status = st.status]_vars

(***************************************************************************)
(* Specification SpecWin: the game stands at the entry of its second       *)
(* night; the night and the day that follows are played to their results,  *)
(* with few targets, so that each team can win at either resolution.       *)
(***************************************************************************)
WinEntries ==
    {SecondNight(InitState(s), k, d) :
        s \in SettingsChoices, k \in 1..NumShuffles, d \in DayOneOutcomes}

WinNightTargets == {NoTarget, 6}

WinDayTargets == {1, 6}

WinDayChoices(p) == IF p \in WinDayTargets THEN {NoTarget} ELSE WinDayTargets

WinLeavers == {1, 5}

InitWin ==
    /\ st \in WinEntries
    /\ last = [op |-> "init", resolved |-> "none"]

NextWin ==
    \/ \E p \in Players, t \in WinNightTargets : NightActionMsg(p, t)
    \/ \E p \in Players : \E t \in WinDayChoices(p) : DayVoteMsg(p, t)
    \/ \E p \in WinLeavers : LeaveRoomMsg(p)
    \/ TickerExpire
    \/ StaleTickerExpire
    \/ StaleTickerExit
    \/ (st.phaseTimer.cb # CbToNight /\ PhaseTimerFire)
    \/ LooseTimerFire(CbToDay)

SpecWin == InitWin /\ [][NextWin]_vars

\* the alive members of the room on the mafia team, and the other alive members
AliveMafia(s) ==
    {p \in s.players : s.status[p] = PlayerStatusAlive
                       /\ s.roles[p] \in {RoleMafia, RoleGodfather}}

AliveTown(s) ==
    {p \in s.players : s.status[p] = PlayerStatusAlive
                       /\ s.roles[p] \in {RoleVillager, RoleDoctor, RoleDetective}}

SettingsSum(settings) ==
    settings.villagers + settings.mafia + settings.godfather
        + settings.doctor + settings.detective

\* C17: start_game succeeds only when the role counts of the room's settings
\* sum to the number of players, with at least one mafia or godfather and at
\* most one godfather, one doctor and one detective
C17_StartNeedsValidSettings ==
    [][(last'.op = "start_game") =>
        /\ SettingsSum(st.settings) = PlayerCount(st)
        /\ st.settings.mafia + st.settings.godfather >= 1
        /\ st.settings.godfather <= 1
        /\ st.settings.doctor <= 1
        /\ st.settings.detective <= 1]_vars

\* C19: a reconnect record exists for player p exactly when p is a member of
\* the room, the room is playing, and p's is_connected flag is false
C19_RecordIffDisconnectedMember ==
    \A p \in Players :
        (p \in st.disconnected) <=>
            (GetPlayer(st, p) /\ st.roomState = RoomStatePlaying /\ p \notin st.isConnected)

(***************************************************************************)
(* The lobby: several rooms, held by RoomService.rooms under their codes.  *)
(* Under the specification SpecLobby the variable st is a record           *)
(*   rooms      the Room of every code (with its game and hub membership)  *)
(*   registry   the codes that are keys of RoomService.rooms               *)
(*   roomTTL    the codes with a pending 5-minute cleanup timer            *)
(*   open       the connections that are open                              *)
(*   ops, starts   history: numbers of accepted create_room, join_room and *)
(*              leave_room messages and closed connections, and of started *)
(*              games, since the initial state                             *)
(* and last also records the connection, the room and the error answered.  *)
(***************************************************************************)
RoomCodes == {"A", "B"}

\* the empty Client.RoomCode
NoRoom == ""

\* the nickname a client types: its own one or one that others type too
SharedNickname == 0

Nicknames(p) == {p, SharedNickname}

\* entity.NewRoom: no player, default settings, state waiting
NewRoom ==
    [InitState(DefaultSettings) EXCEPT !.players = {},
                                       !.playerOrder = <<>>,
                                       !.isHost = {},
                                       !.isReady = {},
                                       !.isConnected = {},
                                       !.attached = {}]

\* Room.AddPlayer: the error it returns, "" when the player is added
AddPlayerError(s, nick) ==
    IF PlayerCount(s) >= MaxPlayers THEN "room_full"
    ELSE IF s.roomState # RoomStateWaiting THEN "game_started"
    ELSE IF \E q \in s.players : s.nickname[q] = nick THEN "nickname_in_use"
    ELSE ""

\* Room.AddPlayer of NewPlayer(p, nick, false): Players[p] is replaced by
\* the new object and p is appended to PlayerOrder
AddPlayer(s, p, nick) ==
    [s EXCEPT !.players = s.players \cup {p},
              !.playerOrder = Append(s.playerOrder, p),
              !.isHost = (s.isHost \ {p}) \cup (IF s.players = {} THEN {p} ELSE {}),
              !.isReady = s.isReady \ {p},
              !.isConnected = s.isConnected \cup {p},
              !.nickname[p] = nick,
              !.status[p] = PlayerStatusAlive]

\* the new host id Room.RemovePlayer returns when member p is removed
NewHostID(s, p) ==
    IF p \in s.isHost /\ s.players \ {p} # {}
    THEN RemoveFirst(s.playerOrder, p)[1]
    ELSE NoTarget

\* Room.SetReady of a member
SetReady(s, p, ready) ==
    [s EXCEPT !.isReady = IF ready THEN s.isReady \cup {p} ELSE s.isReady \ {p}]

IsEmpty(s) == s.players = {}

\* Client.RoomCode of connection p
RoomCodeOf(L, p) ==
    IF \E c \in RoomCodes : p \in L.rooms[c].attached
    THEN CHOOSE c \in RoomCodes : p \in L.rooms[c].attached
    ELSE NoRoom

leaveRoomLocked(L, p) ==
    [L EXCEPT !.rooms = [c \in RoomCodes |->
                            [L.rooms[c] EXCEPT !.attached = L.rooms[c].attached \ {p}]]]

\* Hub.JoinRoom: the client leaves its current hub room, then enters c
HubJoinRoom(L, p, c) ==
    [leaveRoomLocked(L, p) EXCEPT !.rooms[c].attached = @ \cup {p}]

startRoomTTL(L, c) == [L EXCEPT !.roomTTL = L.roomTTL \cup {c}]

cancelRoomTTL(L, c) == [L EXCEPT !.roomTTL = L.roomTTL \ {c}]

\* RoomService.CreateRoom under a code c that is not a key of rooms
CreateRoom(L, c) ==
    [L EXCEPT !.rooms[c] = [NewRoom EXCEPT !.attached = L.rooms[c].attached],
              !.registry = L.registry \cup {c}]

\* RoomService.JoinRoom (the rooms have no password)
JoinRoomError(L, c, nick) ==
    IF c \notin L.registry THEN "room_not_found"
    ELSE AddPlayerError(L.rooms[c], nick)

JoinRoom(L, c, p, nick) ==
    IF c \notin L.registry THEN L
    ELSE IF AddPlayerError(L.rooms[c], nick) # "" THEN cancelRoomTTL(L, c)
    ELSE [cancelRoomTTL(L, c) EXCEPT !.rooms[c] = AddPlayer(L.rooms[c], p, nick)]

\* RoomService.LeaveRoom: "" when p was removed from room c
LeaveRoomError(L, c, p) ==
    IF c \notin L.registry THEN "room_not_found"
    ELSE IF ~GetPlayer(L.rooms[c], p) THEN "player_not_found"
    ELSE ""

LeaveRoomIn(L, c, p) ==
    IF LeaveRoomError(L, c, p) # "" THEN L
    ELSE LET left == [L EXCEPT !.rooms[c] = RemovePlayer(L.rooms[c], p)]
         IN  IF IsEmpty(left.rooms[c]) THEN startRoomTTL(left, c) ELSE left

\* RoomService.MarkPlayerDisconnected(c, p) returns true
CanMarkDisconnectedIn(L, c, p) ==
    c \in L.registry /\ CanMarkDisconnected(L.rooms[c], p)

\* Router.HandleDisconnect of connection p, then Hub.Unregister
HandleDisconnect(L, p) ==
    LET c == RoomCodeOf(L, p)
        handled ==
            IF c = NoRoom THEN L
            ELSE IF CanMarkDisconnectedIn(L, c, p)
            THEN [L EXCEPT !.rooms[c] = MarkPlayerDisconnected(L.rooms[c], p)]
            ELSE LeaveRoomIn(L, c, p)
    IN  [leaveRoomLocked(handled, p) EXCEPT !.open = L.open \ {p}]

\* RoomService.handleReconnectTimeout and Router.handleReconnectTimeout for
\* the record of player p in room c
ReconnectTimeoutIn(L, c, p) ==
    LET deleted == [L EXCEPT !.rooms[c].disconnected = @ \ {p}]
    IN  IF LeaveRoomError(deleted, c, p) # "" THEN deleted
        ELSE LET left == [deleted EXCEPT !.rooms[c] = handleReconnectTimeout(@, p)]
             IN  IF IsEmpty(left.rooms[c]) THEN startRoomTTL(left, c) ELSE left

\* RoomService.CanReconnect(q): the room of the record kept under id q
RecordOf(L, q) ==
    IF \E c \in RoomCodes : q \in L.rooms[c].disconnected
    THEN CHOOSE c \in RoomCodes : q \in L.rooms[c].disconnected
    ELSE NoRoom

\* Router.handleReconnect of connection q: the error it answers
ReconnectError(L, q) ==
    LET c == RecordOf(L, q)
    IN  IF c = NoRoom THEN "reconnect_failed"
        ELSE IF c \notin L.registry \/ ~GetPlayer(L.rooms[c], q) THEN "reconnect_failed"
        ELSE IF ~L.rooms[c].registered THEN "reconnect_failed"
        ELSE ""

\* Router.handleReconnect of connection q.  The record is looked up under
\* Client.PlayerID, the id ServeHTTP generated for this connection; the
\* message carries no id that the handler reads
handleReconnect(L, q) ==
    LET c == RecordOf(L, q)
        deleted == [L EXCEPT !.rooms[c].disconnected = @ \ {q}]
    IN  IF c = NoRoom THEN L
        ELSE IF c \notin L.registry \/ ~GetPlayer(L.rooms[c], q) THEN deleted
        ELSE HubJoinRoom([deleted EXCEPT !.rooms[c].isConnected = @ \cup {q}], q, c)

\* the cleanup timer of room c fires
RoomTTLExpired(L, c) ==
    IF c \in L.registry /\ IsEmpty(L.rooms[c])
    THEN [L EXCEPT !.registry = L.registry \ {c}, !.roomTTL = L.roomTTL \ {c}]
    ELSE [L EXCEPT !.roomTTL = L.roomTTL \ {c}]

LobbyRunning(L) == \A c \in RoomCodes : Running(L.rooms[c])

\* the 5 s role-reveal timer of room c, armed when the game started, has
\* fired before a 60 s or 5 min timer armed later does
NoShortTimer(L, c) == ~L.rooms[c].phaseTimer.armed

(***************************************************************************)
(* Lobby actions                                                           *)
(***************************************************************************)
\* bound on the accepted create_room, join_room and leave_room messages
\* and closed connections of a behaviour
MaxLobbyOps == 2

Answered(op, p, c, target, err) ==
    last' = [op |-> op, resolved |-> "none", player |-> p, room |-> c,
             target |-> target, err |-> err]

\* create_room {nickname: n} from connection p (Router.handleCreateRoom)
LobbyCreateRoom(p, n) ==
    /\ LobbyRunning(st)
    /\ p \in st.open
    /\ st.ops < MaxLobbyOps
    /\ \E c \in RoomCodes \ st.registry :
          /\ st' = [HubJoinRoom(JoinRoom(CreateRoom(st, c), c, p, n), p, c)
                        EXCEPT !.ops = st.ops + 1]
          /\ Answered("create_room", p, c, 0, "")

\* join_room {room_code: c, nickname: n} from connection p
LobbyJoinRoom(p, c, n) ==
    /\ LobbyRunning(st)
    /\ p \in st.open
    /\ st.ops < MaxLobbyOps
    /\ st' = IF JoinRoomError(st, c, n) # "" THEN JoinRoom(st, c, p, n)
             ELSE [HubJoinRoom(JoinRoom(st, c, p, n), p, c) EXCEPT !.ops = st.ops + 1]
    /\ Answered("join_room", p, c, 0, JoinRoomError(st, c, n))

\* leave_room from connection p (Router.handleLeaveRoom)
LobbyLeaveRoom(p) ==
    /\ LobbyRunning(st)
    /\ p \in st.open
    /\ st.ops < MaxLobbyOps
    /\ LET c == RoomCodeOf(st, p)
       IN  IF c = NoRoom
           THEN st' = st /\ Answered("leave_room", p, c, 0, "not_in_room")
           ELSE IF LeaveRoomError(st, c, p) # ""
           THEN st' = st /\ Answered("leave_room", p, c, 0, "leave_failed")
           ELSE /\ st' = [leaveRoomLocked(LeaveRoomIn(st, c, p), p)
                              EXCEPT !.ops = st.ops + 1]
                /\ Answered("leave_room", p, c, NewHostID(st.rooms[c], p), "")

\* ready {ready: b} from connection p (Router.handleReady)
LobbyReady(p, b) ==
    /\ LobbyRunning(st)
    /\ p \in st.open
    /\ LET c == RoomCodeOf(st, p)
       IN  IF c = NoRoom
           THEN st' = st /\ Answered("ready", p, c, 0, "not_in_room")
           ELSE IF LeaveRoomError(st, c, p) # ""
           THEN st' = st /\ Answered("ready", p, c, 0, "ready_failed")
           ELSE /\ st' = [st EXCEPT !.rooms[c] = SetReady(@, p, b)]
                /\ Answered("ready", p, c, 0, "")

\* RoomService.UpdateSettings(c, p, settings): the error the router answers
UpdateSettingsError(L, c, p) ==
    IF c \notin L.registry \/ ~GetPlayer(L.rooms[c], p) THEN "settings_failed"
    ELSE IF p \notin L.rooms[c].isHost THEN "not_host"
    ELSE ""

\* update_settings from connection p (Router.handleUpdateSettings)
LobbyUpdateSettings(p, settings) ==
    /\ LobbyRunning(st)
    /\ p \in st.open
    /\ LET c == RoomCodeOf(st, p)
       IN  IF c = NoRoom
           THEN st' = st /\ Answered("update_settings", p, c, 0, "not_in_room")
           ELSE IF UpdateSettingsError(st, c, p) # ""
           THEN st' = st /\ Answered("update_settings", p, c, 0, UpdateSettingsError(st, c, p))
           ELSE /\ st' = [st EXCEPT !.rooms[c].settings = settings]
                /\ Answered("update_settings", p, c, 0, "")

\* GameService.StartGame(c, p): the error it returns
StartGameErrorIn(L, c, p) ==
    IF c \notin L.registry THEN "start_failed"
    ELSE StartGameError(L.rooms[c], p)

\* start_game from connection p (Router.handleStartGame)
LobbyStartGame(p) ==
    /\ LobbyRunning(st)
    /\ p \in st.open
    /\ st.starts < MaxStarts
    /\ LET c == RoomCodeOf(st, p)
       IN  IF c = NoRoom
           THEN st' = st /\ Answered("start_game", p, c, 0, "not_in_room")
           ELSE IF StartGameErrorIn(st, c, p) # ""
           THEN st' = st /\ Answered("start_game", p, c, 0, StartGameErrorIn(st, c, p))
           ELSE /\ \E k \in 1..NumShuffles :
                      st' = [st EXCEPT !.rooms[c] = StartGame(@, k),
                                       !.starts = st.starts + 1]
                /\ Answered("start_game", p, c, 0, "")

\* the connection p drops
LobbyDisconnect(p) ==
    /\ LobbyRunning(st)
    /\ p \in st.open
    /\ st.ops < MaxLobbyOps
    /\ st' = [HandleDisconnect(st, p) EXCEPT !.ops = st.ops + 1]
    /\ Answered("disconnect", p, RoomCodeOf(st, p), 0, "")

\* the reconnect timer of the record of player p in room c fires
LobbyReconnectTimeout(c, p) ==
    /\ LobbyRunning(st)
    /\ p \in st.rooms[c].disconnected
    /\ NoShortTimer(st, c)
    /\ st' = ReconnectTimeoutIn(st, c, p)
    /\ Answered("reconnect_timeout", p, c, 0, "")

\* a connection q, opened after the connection of player p dropped, sends
\* reconnect on behalf of p while the record of p exists.  ServeHTTP gave q
\* an id of its own, which is in no room
LobbyReconnect(q, p) ==
    /\ LobbyRunning(st)
    /\ q \in st.open
    /\ RoomCodeOf(st, q) = NoRoom
    /\ \A c \in RoomCodes : ~GetPlayer(st.rooms[c], q)
    /\ RecordOf(st, p) # NoRoom
    /\ st' = handleReconnect(st, q)
    /\ Answered("reconnect", q, RecordOf(st, p), p, ReconnectError(st, q))

\* the cleanup timer of room c fires
LobbyRoomTTL(c) ==
    /\ LobbyRunning(st)
    /\ c \in st.roomTTL
    /\ NoShortTimer(st, c)
    /\ st' = RoomTTLExpired(st, c)
    /\ Answered("room_ttl", 0, c, 0, "")

(***************************************************************************)
(* Specification SpecLobby.  The initial states are computed with the      *)
(* handlers themselves: a waiting room "A" of five ready members, a full   *)
(* room "A" whose game has just started, and a room "A" whose six-player   *)
(* game has ended on the first day (with or without a member whose         *)
(* connection dropped during the game).  The room-level timers of a game   *)
(* are not followed here.                                                  *)
(***************************************************************************)
EmptyLobby ==
    [rooms |-> [c \in RoomCodes |-> NewRoom],
     registry |-> {},
     roomTTL |-> {},
     open |-> Clients,
     ops |-> 0,
     starts |-> 0]

RECURSIVE Filled(_, _)
\* clients 1..n enter room c in this order (1 creates it) under their own
\* nicknames
Filled(c, n) ==
    IF n = 1 THEN HubJoinRoom(JoinRoom(CreateRoom(EmptyLobby, c), c, 1, 1), 1, c)
    ELSE HubJoinRoom(JoinRoom(Filled(c, n - 1), c, n, n), n, c)

\* every member of room c has sent ready {ready: true}
EverybodyReady(L, c) == [L EXCEPT !.rooms[c].isReady = L.rooms[c].players]

LobbyWaiting == EverybodyReady(Filled("A", MinPlayers - 1), "A")

LobbyFull ==
    [EverybodyReady(Filled("A", MaxPlayers), "A") EXCEPT !.rooms["A"] = StartGame(@, 1)]

\* a six-player game under SoloSettings (player 1 is the mafia member): the
\* connections of `dropped` close in the first night, the others vote
\* player 1 out on the first day, and the day deadline ends the game
EndedRoom(r0, dropped) ==
    LET night == FirstNight([r0 EXCEPT !.settings = SoloSettings], 1)
        marked == [night EXCEPT !.isConnected = night.isConnected \ dropped,
                                !.disconnected = dropped,
                                !.attached = night.attached \ dropped]
        day == QuietNightThenDay(marked)
        voted == [day EXCEPT !.dayVotes.votes =
                     [p \in Players |-> IF p = 1 \/ p \in dropped THEN Unset ELSE 1]]
    IN  Only(resolveDay(Stopped(voted)))

LobbyEnded(dropped) ==
    LET L == EverybodyReady(Filled("A", MinPlayers), "A")
    IN  [L EXCEPT !.rooms["A"] = EndedRoom(@, dropped), !.open = Clients \ dropped]

\* the connections whose messages are followed: the host of room "A", one
\* more client (a member of "A" unless the room is the waiting one) and a
\* client that is in no room
LobbyActors == {1, MinPlayers, MaxPlayers + 1}

InitLobby ==
    /\ st \in {LobbyWaiting, LobbyFull, LobbyEnded({}), LobbyEnded({MinPlayers})}
    /\ last = [op |-> "init", resolved |-> "none", player |-> 0, room |-> NoRoom,
               target |-> 0, err |-> ""]

NextLobby ==
    \/ \E p \in LobbyActors : \E n \in Nicknames(p) : LobbyCreateRoom(p, n)
    \/ \E p \in LobbyActors, c \in RoomCodes : \E n \in Nicknames(p) : LobbyJoinRoom(p, c, n)
    \/ \E p \in LobbyActors : LobbyLeaveRoom(p)
    \/ \E p \in LobbyActors, b \in BOOLEAN : LobbyReady(p, b)
    \/ \E p \in LobbyActors : LobbyStartGame(p)
    \/ \E p \in LobbyActors : LobbyDisconnect(p)
    \/ \E c \in RoomCodes, p \in LobbyActors : LobbyReconnectTimeout(c, p)
    \/ \E q, p \in LobbyActors : LobbyReconnect(q, p)
    \/ \E c \in RoomCodes : LobbyRoomTTL(c)

SpecLobby == InitLobby /\ [][NextLobby]_vars

(***************************************************************************)
(* Specification SpecHost: host transfer, settings and the cleanup timer.  *)
(* The initial states, computed with the handlers, are the waiting room of *)
(* five, a room whose player_order starts with an id that has left, and a  *)
(* room that all members left after its game ended.                        *)
(***************************************************************************)
\* room "A" after client 1 created it, client 6 joined it, joined it again
\* under the shared nickname and left it, and client 13 joined it
LobbyStale ==
    LET Enter(L, p, n) == HubJoinRoom(JoinRoom(L, "A", p, n), p, "A")
        twice == Enter(Enter(Filled("A", 1), MinPlayers, MinPlayers),
                       MinPlayers, SharedNickname)
        left == leaveRoomLocked(LeaveRoomIn(twice, "A", MinPlayers), MinPlayers)
    IN  Enter(left, MaxPlayers + 1, MaxPlayers + 1)

RECURSIVE Emptied(_, _, _)
\* members n, n - 1, ..., 1 of room c send leave_room in this order
Emptied(L, c, n) ==
    IF n = 0 THEN L
    ELSE Emptied(leaveRoomLocked(LeaveRoomIn(L, c, n), n), c, n - 1)

LobbyDeserted == Emptied(LobbyEnded({}), "A", MinPlayers)

InitHost ==
    /\ st \in {LobbyWaiting, LobbyStale, LobbyDeserted}
    /\ last = [op |-> "init", resolved |-> "none", player |-> 0, room |-> NoRoom,
               target |-> 0, err |-> ""]

NextHost ==
    \/ \E p \in LobbyActors, c \in RoomCodes : \E n \in Nicknames(p) : LobbyJoinRoom(p, c, n)
    \/ \E p \in LobbyActors : LobbyLeaveRoom(p)
    \/ \E p \in LobbyActors, s \in SettingsChoices : LobbyUpdateSettings(p, s)
    \/ \E p \in LobbyActors : LobbyDisconnect(p)
    \/ \E c \in RoomCodes : LobbyRoomTTL(c)

SpecHost == InitHost /\ [][NextHost]_vars

(***************************************************************************)
(* Properties of the lobby, under SpecLobby                                *)
(***************************************************************************)
\* C12: every non-empty room of the registry has exactly one member whose
\* is_host flag is true, whatever create_room, join_room, leave_room,
\* disconnect, reconnect and reconnect-timeout operations happened
C12_OneHostPerRoom ==
    \A c \in st.registry :
        ~IsEmpty(st.rooms[c]) => Cardinality(GetHost(st.rooms[c])) = 1

\* C13: in every room, player_order lists each key of players exactly once
\* and nothing else
C13_OrderListsPlayersOnce ==
    \A c \in st.registry :
        LET order == st.rooms[c].playerOrder
        IN  /\ {order[i] : i \in 1..Len(order)} = st.rooms[c].players
            /\ \A i, j \in 1..Len(order) : order[i] = order[j] => i = j

\* C14: a player id is a member of at most one room of the registry
C14_MemberOfOneRoom ==
    \A p \in Clients :
        Cardinality({c \in st.registry : GetPlayer(st.rooms[c], p)}) <= 1

\* C15: the state of a room moves only along waiting -> playing -> ended: no
\* step takes it back to waiting, and none takes it from ended to playing
C15_RoomStateMovesForward ==
    [][\A c \in st.registry \cap st'.registry :
          /\ st.rooms[c].roomState # RoomStateWaiting
                => st'.rooms[c].roomState # RoomStateWaiting
          /\ st.rooms[c].roomState = RoomStateEnded
                => st'.rooms[c].roomState = RoomStateEnded]_vars

\* C16: a join_room into a playing room by an id that is not a member of it
\* is answered game_started and leaves players and player_order unchanged,
\* whatever the number of players of the room
C16_JoinWhilePlayingIsGameStarted ==
    [][(/\ last'.op = "join_room"
        /\ last'.room \in st.registry
        /\ st.rooms[last'.room].roomState = RoomStatePlaying
        /\ ~GetPlayer(st.rooms[last'.room], last'.player))
       => /\ last'.err = "game_started"
          /\ st'.rooms[last'.room].players = st.rooms[last'.room].players
          /\ st'.rooms[last'.room].playerOrder = st.rooms[last'.room].playerOrder]_vars

\* the start_game message just handled came from a connection whose room is
\* in the registry
StartHandled ==
    /\ last'.op = "start_game"
    /\ last'.room \in st.registry

CallerIsHost == GetHost(st.rooms[last'.room]) = {last'.player}

TooFewPlayers == PlayerCount(st.rooms[last'.room]) < MinPlayers

SomeoneNotReady == ~(st.rooms[last'.room].players \subseteq st.rooms[last'.room].isReady)

\* C18 as stated: start_game is answered not_host when the caller is not the
\* host, not_enough_players when the room has fewer than 6 players, and
\* not_all_ready when some player is not ready; a rejection changes nothing
C18_StartRejections ==
    [][StartHandled =>
        /\ ~CallerIsHost => last'.err = "not_host"
        /\ TooFewPlayers => last'.err = "not_enough_players"
        /\ SomeoneNotReady => last'.err = "not_all_ready"
        /\ last'.err # "" => st' = st]_vars

\* C18 amended: the three conditions are tested in this order and the first
\* that holds names the error: not_host when the caller is not the host;
\* otherwise not_enough_players when the room has fewer than 6 players;
\* otherwise not_all_ready when some player is not ready; otherwise the
\* game starts.  A rejection changes nothing: no game, no role, no timer,
\* and the room keeps its state
C18_StartRejectionsInOrder ==
    [][StartHandled =>
        /\ last'.err = (IF ~CallerIsHost THEN "not_host"
                        ELSE IF TooFewPlayers THEN "not_enough_players"
                        ELSE IF SomeoneNotReady THEN "not_all_ready"
                        ELSE "")
        /\ last'.err # "" => st' = st
        /\ last'.err = "" => st'.rooms[last'.room].roomState = RoomStatePlaying]_vars

\* a host of a room of six or more members, one of them not ready, has just
\* been answered not_all_ready
C18_Witness ==
    /\ last.op = "start_game"
    /\ last.err = "not_all_ready"
    /\ GetHost(st.rooms[last.room]) = {last.player}
    /\ PlayerCount(st.rooms[last.room]) >= MinPlayers
    /\ st.rooms[last.room].roomState = RoomStateWaiting
    /\ ~st.rooms[last.room].registered
    /\ ~st.rooms[last.room].phaseTimer.armed

\* C20: when a new connection sends reconnect with the id of a player whose
\* connection dropped while the room was playing, whose record still exists
\* and whose game (the first of the room) still runs, the player is
\* restored: is_connected true, record removed, same role, same host, and no
\* error is answered
C20_ReconnectRestoresPlayer ==
    [][(/\ last'.op = "reconnect"
        /\ st.rooms[last'.room].roomState = RoomStatePlaying
        /\ st.rooms[last'.room].registered
        /\ st.rooms[last'.room].gameId = 1) =>
        LET c == last'.room
            p == last'.target
        IN  /\ last'.err = ""
            /\ p \in st'.rooms[c].isConnected
            /\ p \notin st'.rooms[c].disconnected
            /\ st'.rooms[c].roles[p] = st.rooms[c].roles[p]
            /\ GetHost(st'.rooms[c]) = GetHost(st.rooms[c])]_vars

(***************************************************************************)
(* Specification SpecClock: the reconnect window of RoomService against a  *)
(* clock that counts seconds.  Here st holds                               *)
(*   now       the clock                                                   *)
(*   record    for each player the DisconnectedPlayer kept under its id    *)
(*             (exists, the deadline of its timer, ExpiresAt)              *)
(*   member, isConnected   the players of the playing room and their flag  *)
(* RoomService is driven through its own interface, with the id the record *)
(* is kept under.  A timer that is due runs before the clock advances, but *)
(* in no fixed order with a call made in the same second.                  *)
(***************************************************************************)
\* RoomService.ReconnectTimeout, in seconds
ReconnectTimeoutSeconds == 60

\* the clock stops here
MaxNow == 61

ClockPlayers == {1, 2}

NoRecord == [exists |-> FALSE, deadline |-> 0, expiresAt |-> 0]

\* RoomService.MarkPlayerDisconnected at time now: time.AfterFunc and
\* time.Now().Add, a few statements apart
NewRecord(now) ==
    [exists |-> TRUE, deadline |-> now + ReconnectTimeoutSeconds,
     expiresAt |-> now + ReconnectTimeoutSeconds]

\* RoomService.CanReconnect: time.Now().After(dp.ExpiresAt) rejects
CanReconnect(rec, now) == rec.exists /\ ~(now > rec.expiresAt)

TimerDue(rec, now) == rec.exists /\ now >= rec.deadline

ClockDid(op, p, err) ==
    last' = [op |-> op, resolved |-> "none", player |-> p, err |-> err]

ClockTick ==
    /\ st.now < MaxNow
    /\ \A p \in ClockPlayers : ~TimerDue(st.record[p], st.now)
    /\ st' = [st EXCEPT !.now = st.now + 1]
    /\ ClockDid("tick", 0, "")

\* the connection of member p drops while the room is playing
ClockDisconnect(p) ==
    /\ p \in st.member \cap st.isConnected
    /\ st' = [st EXCEPT !.isConnected = st.isConnected \ {p},
                        !.record[p] = NewRecord(st.now)]
    /\ ClockDid("disconnect", p, "")

\* the timer of the record of p runs RoomService.handleReconnectTimeout
ClockTimerFire(p) ==
    /\ TimerDue(st.record[p], st.now)
    /\ st' = [st EXCEPT !.record[p] = NoRecord, !.member = st.member \ {p}]
    /\ ClockDid("reconnect_timeout", p, "")

\* CanReconnect(p) then ReconnectPlayer(p), as Router.handleReconnect calls
\* them
ClockReconnect(p) ==
    /\ p \in st.member \ st.isConnected
    /\ IF CanReconnect(st.record[p], st.now)
       THEN /\ st' = [st EXCEPT !.record[p] = NoRecord,
                                !.isConnected = st.isConnected \cup {p}]
            /\ ClockDid("reconnect", p, "")
       ELSE /\ st' = st
            /\ ClockDid("reconnect", p, "reconnect_failed")

InitClock ==
    /\ st = [now |-> 0, record |-> [p \in ClockPlayers |-> NoRecord],
             member |-> ClockPlayers, isConnected |-> ClockPlayers]
    /\ last = [op |-> "init", resolved |-> "none", player |-> 0, err |-> ""]

NextClock ==
    \/ ClockTick
    \/ \E p \in ClockPlayers : ClockDisconnect(p)
    \/ \E p \in ClockPlayers : ClockTimerFire(p)
    \/ \E p \in ClockPlayers : ClockReconnect(p)

SpecClock == InitClock /\ [][NextClock]_vars

\* C21: a reconnect is accepted only when now is strictly less than
\* expires_at; at now = expires_at (60 s after the disconnect) it is rejected
C21_ReconnectOnlyBeforeExpiry ==
    [][(last'.op = "reconnect" /\ last'.err = "")
          => st.now < st.record[last'.player].expiresAt]_vars

(***************************************************************************)
(* Properties of host transfer and of the cleanup timer, under SpecHost    *)
(***************************************************************************)
\* the first id of a sequence that is in set S (NoTarget when there is none)
FirstIn(seq, S) ==
    IF \E i \in 1..Len(seq) : seq[i] \in S
    THEN seq[CHOOSE i \in 1..Len(seq) :
                seq[i] \in S /\ \A j \in 1..(i - 1) : seq[j] \notin S]
    ELSE NoTarget

\* C22: when the host leaves a room in which others remain, the first
\* remaining id of player_order becomes the host and is reported as
\* new_host; update_settings succeeds for the host and is answered not_host
\* for any other member
C22_FirstRemainingBecomesHost ==
    [][/\ (/\ last'.op = "leave_room"
           /\ last'.err = ""
           /\ last'.player \in st.rooms[last'.room].isHost
           /\ st.rooms[last'.room].players # {last'.player})
          => LET r == st'.rooms[last'.room]
                 h == FirstIn(st.rooms[last'.room].playerOrder, r.players)
             IN  ~r.crashed /\ GetHost(r) = {h} /\ last'.target = h
       /\ (/\ last'.op = "update_settings"
           /\ last'.room \in st.registry
           /\ GetPlayer(st.rooms[last'.room], last'.player))
          => last'.err = (IF last'.player \in GetHost(st.rooms[last'.room])
                          THEN "" ELSE "not_host")]_vars

\* C23: a join attempt that fails leaves the pending deletion of the room
\* armed (only a join that adds a player cancels it), so that an empty room
\* nobody joins is eventually deleted
C23_FailedJoinKeepsTTL ==
    [][(last'.op = "join_room" /\ last'.err # "" /\ last'.room \in st.roomTTL)
          => last'.room \in st'.roomTTL]_vars

(***************************************************************************)
(* Specification SpecHub: ws.Hub and the pumps of ws.Client.  Here st is   *)
(*   clients      the connections registered in Hub.clients                *)
(*   reading      the connections whose ReadPump runs                      *)
(*   members      Hub.rooms: for each code the connections of the room     *)
(*                (no connection: the code is not a key)                   *)
(*   send         the number of messages queued in each Client.send        *)
(*   broadcast    the RoomMessages queued in Hub.broadcast                 *)
(*   iter         the broadcastToRoom call in progress in Hub.Run: its     *)
(*                room, its excluded connection, the members at the        *)
(*                dequeue, the connections visited, and whether the map it *)
(*                ranges over is still the one in Hub.rooms                *)
(*   unregistering   the goroutines blocked in Hub.Unregister              *)
(*   frames       history: number of frames read and of calls made by      *)
(*                handlers so far                                          *)
(* broadcastToRoom ranges over the room's map after releasing Hub.mu, so   *)
(* JoinRoom and LeaveRoom of other goroutines interleave with its steps.   *)
(***************************************************************************)
HubClients == {1, 2, 3}

\* the capacity of Client.send and of Hub.broadcast (256 in the source)
SendCap == 2

\* bound on the frames read and the Hub calls made by handlers in a behaviour
MaxFrames == 4

\* maxMessageSize of client.go
maxMessageSize == 4096

FrameSizes == {maxMessageSize, maxMessageSize + 1}

\* no client (a nil *Client)
NoClient == 0

NoIter ==
    [active |-> FALSE, room |-> NoRoom, exclude |-> NoClient, snapshot |-> {},
     visited |-> {}, live |-> FALSE]

HubDid(op, c, room, err) ==
    last' = [op |-> op, resolved |-> "none", player |-> c, room |-> room, err |-> err]

\* the non-blocking select { case c.send <- data: default: }
Enqueue(h, c) ==
    IF h.send[c] < SendCap THEN [h EXCEPT !.send[c] = h.send[c] + 1] ELSE h

SendFull(h, c) == h.send[c] >= SendCap

\* Hub.leaveRoomLocked of connection c; an emptied map leaves Hub.rooms
HubLeave(h, c) ==
    LET code == IF \E r \in RoomCodes : c \in h.members[r]
                THEN CHOOSE r \in RoomCodes : c \in h.members[r] ELSE NoRoom
    IN  IF code = NoRoom THEN h
        ELSE [h EXCEPT !.members[code] = h.members[code] \ {c},
                       !.iter.live = h.iter.live /\
                                     ~(h.iter.room = code /\ h.members[code] = {c})]

\* Hub.JoinRoom(c, code)
HubJoin(h, c, code) ==
    LET left == HubLeave(h, c)
    IN  [left EXCEPT !.members[code] = left.members[code] \cup {c}]

\* the connections broadcastToRoom can still reach in the map it ranges over
Reachable(h) ==
    IF h.iter.live THEN h.members[h.iter.room] \ h.iter.visited ELSE {}

\* a handler of connection c calls Hub.JoinRoom(c, code)
HubJoinRoomCall(c, code) ==
    /\ c \in st.reading
    /\ st.frames < MaxFrames
    /\ st' = [HubJoin(st, c, code) EXCEPT !.frames = st.frames + 1]
    /\ HubDid("hub_join", c, code, "")

\* a handler of connection c calls Hub.LeaveRoom(c)
HubLeaveRoomCall(c) ==
    /\ c \in st.reading
    /\ st.frames < MaxFrames
    /\ \E r \in RoomCodes : c \in st.members[r]
    /\ st' = [HubLeave(st, c) EXCEPT !.frames = st.frames + 1]
    /\ HubDid("hub_leave", c, NoRoom, "")

\* Hub.BroadcastToRoom(code, msg, exclude) from some handler or timer
BroadcastToRoom(code, exclude) ==
    /\ st.frames < MaxFrames
    /\ Len(st.broadcast) < SendCap
    /\ st' = [st EXCEPT !.broadcast = Append(st.broadcast, [room |-> code, exclude |-> exclude]),
                        !.frames = st.frames + 1]
    /\ HubDid("broadcast", exclude, code, "")

\* Hub.Run receives from Hub.broadcast and broadcastToRoom looks the room up
HubDequeue ==
    /\ ~st.iter.active
    /\ st.broadcast # <<>>
    /\ LET msg == Head(st.broadcast)
           found == st.members[msg.room] # {}
       IN  st' = [st EXCEPT !.broadcast = Tail(st.broadcast),
                            !.iter = IF found
                                     THEN [active |-> TRUE, room |-> msg.room,
                                           exclude |-> msg.exclude,
                                           snapshot |-> st.members[msg.room],
                                           visited |-> {}, live |-> TRUE]
                                     ELSE NoIter]
    /\ HubDid("dequeue", NoClient, Head(st.broadcast).room, "")

\* one turn of the loop `for client := range room` of broadcastToRoom
broadcastToRoom(c) ==
    /\ st.iter.active
    /\ c \in Reachable(st)
    /\ LET seen == [st EXCEPT !.iter.visited = st.iter.visited \cup {c}]
       IN  IF c = st.iter.exclude
           THEN st' = seen /\ HubDid("skip", c, st.iter.room, "")
           ELSE IF SendFull(st, c)
           THEN /\ st' = [seen EXCEPT !.unregistering = st.unregistering \cup {c}]
                /\ HubDid("deliver", c, st.iter.room, "full")
           ELSE /\ st' = Enqueue(seen, c)
                /\ HubDid("deliver", c, st.iter.room, "")

\* the range loop of broadcastToRoom ends
HubIterEnd ==
    /\ st.iter.active
    /\ Reachable(st) = {}
    /\ st' = [st EXCEPT !.iter = NoIter]
    /\ HubDid("broadcast_done", NoClient, NoRoom, "")

\* Hub.Run receives c from Hub.unregister
HubUnregister(c) ==
    /\ ~st.iter.active
    /\ c \in st.unregistering
    /\ st' = IF c \in st.clients
             THEN [HubLeave(st, c) EXCEPT !.clients = st.clients \ {c},
                                          !.unregistering = st.unregistering \ {c},
                                          !.send[c] = 0]
             ELSE [st EXCEPT !.unregistering = st.unregistering \ {c}]
    /\ HubDid("unregister", c, NoRoom, "")

\* Hub.BroadcastToPlayers(code, ids, msg)
BroadcastToPlayers(code, ids) ==
    /\ st.frames < MaxFrames
    /\ st.members[code] \cap ids # {}
    /\ st' = [st EXCEPT !.send = [c \in HubClients |->
                                    IF c \in st.members[code] \cap ids /\ ~SendFull(st, c)
                                    THEN st.send[c] + 1 ELSE st.send[c]],
                        !.frames = st.frames + 1]
    /\ \E c \in st.members[code] \cap ids :
          HubDid("to_players", c, code, IF SendFull(st, c) THEN "full" ELSE "")

\* Client.ReadPump of connection c reads a frame of the given size that
\* parses (it is then dispatched: the calls above) or does not
ReadFrame(c, size, parses) ==
    /\ c \in st.reading
    /\ st.frames < MaxFrames
    /\ ~parses \/ size > maxMessageSize
    /\ IF size > maxMessageSize
       THEN /\ st' = [st EXCEPT !.reading = st.reading \ {c},
                                !.unregistering = st.unregistering \cup {c},
                                !.frames = st.frames + 1]
            /\ HubDid("read_error", c, NoRoom, "")
       ELSE /\ st' = [Enqueue(st, c) EXCEPT !.frames = st.frames + 1]
            /\ HubDid("invalid_message", c, NoRoom, IF SendFull(st, c) THEN "full" ELSE "")

\* Client.WritePump of connection c writes all the queued messages
WritePump(c) ==
    /\ c \in st.clients
    /\ st.send[c] > 0
    /\ st' = [st EXCEPT !.send[c] = 0]
    /\ HubDid("write", c, NoRoom, "")

InitHub ==
    /\ st = [clients |-> HubClients, reading |-> HubClients,
             members |-> [r \in RoomCodes |-> {}],
             send |-> [c \in HubClients |-> 0],
             broadcast |-> <<>>, iter |-> NoIter, unregistering |-> {},
             frames |-> 0]
    /\ last = [op |-> "init", resolved |-> "none", player |-> NoClient,
               room |-> NoRoom, err |-> ""]

NextHub ==
    \/ \E c \in HubClients, r \in RoomCodes : HubJoinRoomCall(c, r)
    \/ \E c \in HubClients : HubLeaveRoomCall(c)
    \/ \E r \in RoomCodes, x \in {NoClient, 1} : BroadcastToRoom(r, x)
    \/ HubDequeue
    \/ \E c \in HubClients : broadcastToRoom(c)
    \/ HubIterEnd
    \/ \E c \in HubClients : HubUnregister(c)
    \/ \E r \in RoomCodes, c \in HubClients : BroadcastToPlayers(r, {c})
    \/ \E c \in HubClients, n \in FrameSizes, ok \in BOOLEAN : ReadFrame(c, n, ok)
    \/ \E c \in HubClients : WritePump(c)

SpecHub == InitHub /\ [][NextHub]_vars

(***************************************************************************)
(* Properties of the hub, under SpecHub                                    *)
(***************************************************************************)
\* C24: a room broadcast is enqueued to exactly the connections that are
\* members of the room when the hub dequeues it, minus the excluded one,
\* whatever JoinRoom, LeaveRoom and unregister calls interleave
C24_BroadcastReachesDequeueMembers ==
    [][/\ (last'.op = "deliver")
             => last'.player \in st.iter.snapshot \ {st.iter.exclude}
       /\ (last'.op = "broadcast_done")
             => st.iter.snapshot \subseteq st.iter.visited]_vars

\* C25: an enqueue that finds the queue of a connection full (from a room
\* broadcast, a player-subset broadcast or a direct send) closes and
\* unregisters that connection, and touches no other connection
C25_FullQueueClosesConnection ==
    [][(last'.op \in {"deliver", "to_players", "invalid_message"} /\ last'.err = "full")
          => /\ last'.player \in st'.unregistering
             /\ \A d \in HubClients \ {last'.player} : st'.send[d] = st.send[d]
             /\ st'.members = st.members]_vars

\* C26: a frame that does not parse, or that is larger than 4 KiB, is
\* answered error{invalid_message} and the connection stays open,
\* registered and in its room
C26_BadFrameKeepsConnection ==
    [][(last'.op \in {"invalid_message", "read_error"})
          => /\ last'.op = "invalid_message"
             /\ last'.player \in st'.reading \cap st'.clients
             /\ last'.player \notin st'.unregistering
             /\ st'.members = st.members]_vars

(***************************************************************************)
(* Specification SpecRouting: sfu.CalculateRouting applied to every phase  *)
(* and every list of up to MaxVoicePlayers players (the id of a player is  *)
(* its position in the list).  Here st holds the arguments and, once the   *)
(* function has been called, its result.                                   *)
(***************************************************************************)
SfuPhaseLobby == "lobby"

SfuPhases == {SfuPhaseLobby, PhaseNight, PhaseDay, PhaseGameOver}

\* bound on the length of the player list
MaxVoicePlayers == 3

PlayerInfos ==
    UNION {[1..n -> [team : {TeamTown, TeamMafia}, alive : BOOLEAN]] :
              n \in 1..MaxVoicePlayers}

CalculateRouting_nightDeadHear(phase, players) ==
    LET ids == [i \in 1..Len(players) |-> i]
        allAlive == SelectSeq(ids, LAMBDA i : players[i].alive)
        aliveMafia == SelectSeq(ids, LAMBDA i :
                          players[i].alive /\ players[i].team = TeamMafia)
    IN  [i \in 1..Len(players) |->
            IF phase \in {SfuPhaseLobby, PhaseGameOver}
            THEN [canSpeak |-> TRUE, canHear |-> ids]
            ELSE IF phase = PhaseNight
            THEN IF players[i].team = TeamMafia
                 THEN [canSpeak |-> players[i].alive, canHear |-> aliveMafia]
                 ELSE [canSpeak |-> FALSE, canHear |-> <<>>]
            ELSE [canSpeak |-> players[i].alive, canHear |-> allAlive]]

\* sfu.CalculateRouting for one of the four phases
CalculateRouting(phase, players) ==
    LET ids == [i \in 1..Len(players) |-> i]
        allAlive == SelectSeq(ids, LAMBDA i : players[i].alive)
        aliveMafia == SelectSeq(ids, LAMBDA i :
                          players[i].alive /\ players[i].team = TeamMafia)
    IN  [i \in 1..Len(players) |->
            IF phase \in {SfuPhaseLobby, PhaseGameOver}
            THEN [canSpeak |-> TRUE, canHear |-> ids]
            ELSE IF phase = PhaseNight
            THEN IF ~players[i].alive
                 THEN [canSpeak |-> FALSE, canHear |-> <<>>]
                 ELSE IF players[i].team = TeamMafia
                 THEN [canSpeak |-> TRUE, canHear |-> aliveMafia]
                 ELSE [canSpeak |-> FALSE, canHear |-> <<>>]
            ELSE IF ~players[i].alive
                 THEN [canSpeak |-> FALSE, canHear |-> allAlive]
                 ELSE [canSpeak |-> TRUE, canHear |-> allAlive]]

InitRouting ==
    /\ \E phase \in SfuPhases, players \in PlayerInfos :
          st = [phase |-> phase, players |-> players, done |-> FALSE, routing |-> <<>>]
    /\ last = [op |-> "init", resolved |-> "none"]

CalculateRoutingCall ==
    /\ ~st.done
    /\ st' = [st EXCEPT !.done = TRUE,
                        !.routing = CalculateRouting(st.phase, st.players)]
    /\ Did("calculate_routing", "none")

NextRouting == CalculateRoutingCall

SpecRouting == InitRouting /\ [][NextRouting]_vars

Heard(i) == {st.routing[i].canHear[k] : k \in 1..Len(st.routing[i].canHear)}

AlivePositions == {j \in 1..Len(st.players) : st.players[j].alive}

\* C27: in lobby and game_over everybody speaks and hears all players; at
\* night the alive mafia speak and hear the alive mafia, alive town and the
\* dead are muted and hear nobody; by day the alive speak, the dead are
\* muted, and both hear all alive players
C27_RoutingFollowsTable ==
    st.done =>
        \A i \in 1..Len(st.players) :
            LET me == st.players[i]
                r == st.routing[i]
            IN  IF st.phase \in {SfuPhaseLobby, PhaseGameOver}
                THEN r.canSpeak /\ Heard(i) = 1..Len(st.players)
                ELSE IF st.phase = PhaseNight
                THEN IF me.alive /\ me.team = TeamMafia
                     THEN /\ r.canSpeak
                          /\ Heard(i) = {j \in AlivePositions : st.players[j].team = TeamMafia}
                     ELSE ~r.canSpeak /\ Heard(i) = {}
                ELSE (r.canSpeak <=> me.alive) /\ Heard(i) = AlivePositions

\* the routing of a night with an alive mafia member, an alive town member
\* and a dead mafia member has been computed
C27_Witness ==
    /\ st.done
    /\ st.phase = PhaseNight
    /\ \E i, j, k \in 1..Len(st.players) :
          /\ st.players[i].alive /\ st.players[i].team = TeamMafia
          /\ st.players[j].alive /\ st.players[j].team = TeamTown
          /\ ~st.players[k].alive /\ st.players[k].team = TeamMafia

(***************************************************************************)
(* Specification SpecVoice: a game together with the voice routing last    *)
(* applied to the SFU and broadcast as voice_routing.  st.game is the room *)
(* and game record of the specifications above; st.voice holds the ids the *)
(* routing was computed for, the phase it was computed with and the result *)
(* of CalculateRouting.  GameService calls the router's event handler      *)
(* inside emitEvent, so a handler and the routing it triggers are one step.*)
(* The specification follows the first day and the night after it, up to   *)
(* the result of that night.                                               *)
(***************************************************************************)
\* the switch of applyVoiceRouting over the "phase" entry of the event data
sfuPhaseOf(p) ==
    IF p \in {PhaseNight, PhaseDay, PhaseGameOver} THEN p ELSE SfuPhaseLobby

\* the players of game.Roles that are still in the room, in player order
VoiceIds(g) ==
    SelectSeq(g.playerOrder, LAMBDA p : p \in g.players /\ g.roles[p] # "")

VoicePlayers(g) ==
    [i \in 1..Len(VoiceIds(g)) |->
        [team |-> IF GetTeam(g.roles[VoiceIds(g)[i]]) = TeamMafia
                  THEN TeamMafia ELSE TeamTown,
         alive |-> g.status[VoiceIds(g)[i]] = PlayerStatusAlive]]

applyVoiceRouting(g, p) ==
    [ids |-> VoiceIds(g),
     phase |-> sfuPhaseOf(p),
     routing |-> CalculateRouting(sfuPhaseOf(p), VoicePlayers(g))]

\* Router.handleGameEvent for the events a handler emitted while it took
\* the game from g to g2: game_over (endGame removed the game only after
\* the event), phase_changed with phase night or day, or neither
handleGameEvent(v, g, g2) ==
    IF g.registered /\ ~g2.registered
    THEN applyVoiceRouting(g2, PhaseGameOver)
    ELSE IF g2.registered /\ g2.phase # g.phase /\ g2.phase \in {PhaseNight, PhaseDay}
    THEN applyVoiceRouting(g2, g2.phase)
    ELSE v

VoiceStep(g2) ==
    st' = [game |-> g2, voice |-> handleGameEvent(st.voice, st.game, g2)]

VoiceNightAction(p, t) ==
    /\ Running(st.game)
    /\ st.game.registered
    /\ NightActionError(st.game, p, t) = ""
    /\ \E g2 \in SubmitNightAction(st.game, p, t) :
          /\ VoiceStep(g2)
          /\ Did("night_action", IF g2.phase # PhaseNight THEN "night" ELSE "none")

VoiceDayVote(p, t) ==
    /\ Running(st.game)
    /\ st.game.registered
    /\ DayVoteError(st.game, p, t) = ""
    /\ \E g2 \in SubmitDayVote(st.game, p, t) :
          /\ VoiceStep(g2)
          /\ Did("day_vote", IF g2.phase # PhaseDay THEN "day" ELSE "none")

VoiceTimerFire ==
    /\ Running(st.game)
    /\ Settled(st.game)
    /\ st.game.phaseTimer.armed
    /\ st.game.phaseTimer.cb = CbToNight => st.game.round < MaxRound
    /\ \E g2 \in RunCallback(Stopped(st.game), st.game.phaseTimer.cb) : VoiceStep(g2)
    /\ Did(st.game.phaseTimer.cb, IF st.game.phaseTimer.cb = CbResolveDay THEN "day" ELSE "none")

VoiceTickerExpire ==
    /\ Running(st.game)
    /\ Settled(st.game)
    /\ st.game.timerCancel
    /\ \E g2 \in TickerExpired(st.game) : VoiceStep(g2)
    /\ Did("ticker_expire", "night")

VoiceStaleTicker ==
    /\ Running(st.game)
    /\ st.game.staleTickers > 0
    /\ \/ \E g2 \in resolveNight(DeleteEntries([st.game EXCEPT !.staleTickers = @ - 1])) :
             VoiceStep(g2) /\ Did("stale_ticker_expire", "night")
       \/ VoiceStep([st.game EXCEPT !.staleTickers = @ - 1]) /\ Did("ticker_exit", "none")

\* the game has just entered its first day
VoiceEntries ==
    {FirstDay(InitState(s), k) : s \in SettingsChoices, k \in 1..NumShuffles}

VoiceNightTargets == {1, 6}

\* four of the six players vote by day: a majority when they agree
VoiceVoters == {2, 3, 4, 5}

VoiceDayTargets == {NoTarget, 1}

InitVoice ==
    /\ \E g \in VoiceEntries : st = [game |-> g, voice |-> applyVoiceRouting(g, g.phase)]
    /\ last = [op |-> "init", resolved |-> "none"]

NextVoice ==
    \/ \E p \in Players, t \in VoiceNightTargets : VoiceNightAction(p, t)
    \/ \E p \in VoiceVoters, t \in VoiceDayTargets : VoiceDayVote(p, t)
    \/ (st.game.phaseTimer.cb # CbToDay /\ VoiceTimerFire)
    \/ VoiceTickerExpire
    \/ VoiceStaleTicker

SpecVoice == InitVoice /\ [][NextVoice]_vars

CanSpeakNow(p) ==
    \E i \in 1..Len(st.voice.ids) :
        st.voice.ids[i] = p /\ st.voice.routing[i].canSpeak

\* C28: while the game is not over, no dead player has can_speak in the
\* routing last applied and broadcast: the routing is recomputed after
\* every death and every phase transition
C28_DeadPlayersAreMuted ==
    (st.game.registered /\ st.game.phase # PhaseGameOver) =>
        \A p \in st.game.players :
            st.game.status[p] = PlayerStatusDead => ~CanSpeakNow(p)

(***************************************************************************)
(* Specification SpecGhost: ghost chat.  The lobby of SpecLobby holds room *)
(* "A" with a six-player game that has just resolved its first day; the    *)
(* game goes on to the result of the next night while connections send    *)
(* ghost_chat, join, create and leave rooms, and drop.  A ghost_chat step  *)
(* records in last.delivered the connections into whose queue the          *)
(* ghost_chat_broadcast was put.                                           *)
(***************************************************************************)
\* the longest accepted message
GhostMaxLen == 500

MessageLengths == {0, 1, GhostMaxLen, GhostMaxLen + 1}

\* Router.handleGhostChat of connection p with a well-formed payload whose
\* message has length len: the error code answered, "" when accepted
GhostChatError(L, p, len) ==
    LET c == RoomCodeOf(L, p)
    IN  IF c = NoRoom THEN "not_in_room"
        ELSE IF len = 0 \/ len > GhostMaxLen THEN "invalid_message"
        ELSE IF ~L.rooms[c].registered THEN "game_not_found"
        ELSE IF ~GetPlayer(L.rooms[c], p) THEN "player_not_found"
        ELSE IF L.rooms[c].status[p] # PlayerStatusDead THEN "not_dead"
        ELSE ""

deadPlayerIDs(s) == {q \in s.players : s.status[q] = PlayerStatusDead}

BroadcastToPlayers_wholeRoom(L, c, ids) == L.rooms[c].attached

\* Hub.BroadcastToPlayers: the clients of hub room c whose PlayerID is in ids
BroadcastToPlayersIn(L, c, ids) == {q \in L.rooms[c].attached : q \in ids}

GhostAnswered(p, c, err, delivered) ==
    last' = [op |-> "ghost_chat", resolved |-> "none", player |-> p, room |-> c,
             target |-> 0, err |-> err, delivered |-> delivered]

LobbyGhostChat(p, len) ==
    /\ LobbyRunning(st)
    /\ p \in st.open
    /\ st' = st
    /\ LET c == RoomCodeOf(st, p)
       IN  IF GhostChatError(st, p, len) # ""
           THEN GhostAnswered(p, c, GhostChatError(st, p, len), {})
           ELSE GhostAnswered(p, c, "",
                    BroadcastToPlayersIn(st, c, deadPlayerIDs(st.rooms[c])))

\* night_action {target_id: t} from connection p
LobbyNightAction(p, t) ==
    /\ LobbyRunning(st)
    /\ p \in st.open
    /\ LET c == RoomCodeOf(st, p)
       IN  /\ c # NoRoom
           /\ st.rooms[c].registered
           /\ NightActionError(st.rooms[c], p, t) = ""
           /\ \E g \in SubmitNightAction(st.rooms[c], p, t) :
                 st' = [st EXCEPT !.rooms[c] = g]
           /\ Answered("night_action", p, c, t, "")

\* the timer in phaseTimers of room c fires
LobbyPhaseTimer(c) ==
    /\ LobbyRunning(st)
    /\ Settled(st.rooms[c])
    /\ st.rooms[c].phaseTimer.armed
    /\ st.rooms[c].phaseTimer.cb = CbToNight => st.rooms[c].round < MaxRound
    /\ \E g \in RunCallback(Stopped(st.rooms[c]), st.rooms[c].phaseTimer.cb) :
          st' = [st EXCEPT !.rooms[c] = g]
    /\ Answered(st.rooms[c].phaseTimer.cb, 0, c, 0, "")

\* the ticker goroutine of room c reaches its deadline, or one whose
\* channel was closed returns
LobbyTicker(c) ==
    /\ LobbyRunning(st)
    /\ \/ /\ Settled(st.rooms[c])
          /\ st.rooms[c].timerCancel
          /\ \E g \in TickerExpired(st.rooms[c]) : st' = [st EXCEPT !.rooms[c] = g]
       \/ /\ st.rooms[c].staleTickers > 0
          /\ st' = [st EXCEPT !.rooms[c].staleTickers = @ - 1]
    /\ Answered("ticker", 0, c, 0, "")

\* the first day of the game in room "A" eliminated player d, or nobody
LobbyAfterDay(d) ==
    LET L == EverybodyReady(Filled("A", MinPlayers), "A")
    IN  [L EXCEPT !.rooms["A"] = DayOutcome(FirstDay(@, 1), d)]

\* the connections whose messages are followed: a mafia member, a villager
\* and a client that is in no room
GhostActors == {1, 5, MaxPlayers + 1}

GhostTargets == {2, 6}

InitGhost ==
    /\ st \in {LobbyAfterDay(d) : d \in DayOneOutcomes}
    /\ last = [op |-> "init", resolved |-> "none", player |-> 0, room |-> NoRoom,
               target |-> 0, err |-> ""]

NextGhost ==
    \/ \E p \in GhostActors, len \in MessageLengths : LobbyGhostChat(p, len)
    \/ \E p \in Players, t \in GhostTargets : LobbyNightAction(p, t)
    \/ \E c \in RoomCodes : st.rooms[c].phaseTimer.cb # CbToDay /\ LobbyPhaseTimer(c)
    \/ \E c \in RoomCodes : LobbyTicker(c)
    \/ \E p \in GhostActors : \E n \in Nicknames(p) : LobbyCreateRoom(p, n)
    \/ \E p \in GhostActors, c \in RoomCodes : \E n \in Nicknames(p) : LobbyJoinRoom(p, c, n)
    \/ \E p \in GhostActors : LobbyLeaveRoom(p)
    \/ \E p \in GhostActors : LobbyDisconnect(p)

SpecGhost == InitGhost /\ [][NextGhost]_vars

\* the sender of the ghost_chat just handled is a dead player of its room
SenderIsDead ==
    /\ last.room # NoRoom
    /\ last.player \in deadPlayerIDs(st.rooms[last.room])

\* every connection the broadcast was put to belongs to a dead player of
\* the sender's room, and to no alive player of any room it is attached to
DeliveredToDeadOnly ==
    \A q \in last.delivered :
        /\ q \in st.rooms[last.room].attached
        /\ q \in deadPlayerIDs(st.rooms[last.room])

NoSecret == "none"

\* Game.GetMafiaTeammates
GetMafiaTeammates(s, p) ==
    {q \in DOMAIN s.roles : q # p /\ s.roles[q] # "" /\ GetTeam(s.roles[q]) = TeamMafia}

\* Game.GetRoleRevealData: the teammates entry is present for team mafia
GetRoleRevealData(s, p) ==
    [role |-> s.roles[p],
     hasTeammates |-> s.roles[p] # "" /\ GetTeam(s.roles[p]) = TeamMafia,
     teammates |-> IF s.roles[p] # "" /\ GetTeam(s.roles[p]) = TeamMafia
                   THEN {q \in GetMafiaTeammates(s, p) : GetPlayer(s, q)}
                   ELSE {}]

\* the role_assigned events of GameService.StartGame
RoleAssignedEvents(s) ==
    {[type |-> "role_assigned", target |-> s.playerOrder[i],
      secret |-> IF GetRoleRevealData(s, s.playerOrder[i]).hasTeammates
                 THEN "teammates" ELSE NoSecret]
        : i \in 1..Len(s.playerOrder)}

\* the mafia_vote events of GameService.SubmitNightAction by player p, whose
\* role was read before the action was recorded
MafiaVoteEvents(s, p) ==
    IF s.roles[p] \in {RoleMafia, RoleGodfather}
    THEN {[type |-> "mafia_vote", target |-> q, secret |-> "mafia_votes"]
             : q \in GetMafiaTeammates(s, p) \cup {p}}
    ELSE {}

DetectiveEvents_broadcast(s) ==
    IF s.lastNightResult.hasDetectiveResult /\ (\E q \in DOMAIN s.roles : s.roles[q] = RoleDetective)
    THEN {[type |-> "night_result", target |-> NoTarget, secret |-> "investigation"]}
    ELSE {}

\* the targeted night_result of GameService.resolveNight: to the first
\* detective the loop over game.Roles meets
DetectiveEvents(s) ==
    IF s.lastNightResult.hasDetectiveResult /\ (\E q \in DOMAIN s.roles : s.roles[q] = RoleDetective)
    THEN {[type |-> "night_result", target |-> q, secret |-> "investigation"]
             : q \in {d \in DOMAIN s.roles : s.roles[d] = RoleDetective}}
    ELSE {}

\* the events of resolveNight that left the game in state g2: one
\* night_result for everybody and at most one for the detective
ResolveNightEvents(g2) ==
    IF g2.crashed THEN {{}}
    ELSE IF DetectiveEvents(g2) = {}
    THEN {{[type |-> "night_result", target |-> NoTarget, secret |-> NoSecret]}}
    ELSE {{[type |-> "night_result", target |-> NoTarget, secret |-> NoSecret], e}
             : e \in DetectiveEvents(g2)}

\* Router.handleGameEvent: a night_result without target goes to the hub
\* room, every other event of these types to the client Hub.GetClient finds
\* under the target id (no connection closes in this specification)
Recipients(s, e) ==
    IF e.type = "night_result" /\ e.target = NoTarget THEN s.attached
    ELSE {e.target}

Messages(s, events) ==
    UNION {{[to |-> q, type |-> e.type, secret |-> e.secret] : q \in Recipients(s, e)}
              : e \in events}

Sent(op, msgs) == last' = [op |-> op, resolved |-> "none", msgs |-> msgs]

SecretStartGame(p) ==
    /\ Running(st)
    /\ p \in st.attached
    /\ st.gameId < MaxStarts
    /\ StartGameError(st, p) = ""
    /\ \E k \in 1..NumShuffles :
          /\ st' = StartGame(st, k)
          /\ Sent("start_game", Messages(st', RoleAssignedEvents(st')))

SecretNightAction(p, t) ==
    /\ Running(st)
    /\ p \in st.attached
    /\ st.registered
    /\ NightActionError(st, p, t) = ""
    /\ \E r \in RecordNightAction(st, p, t) :
          IF AllNightActionsComplete(r)
          THEN \E g2 \in resolveNight(cancelPhaseTimer(r)) :
                  \E evs \in ResolveNightEvents(g2) :
                      /\ st' = g2
                      /\ Sent("night_action", Messages(r, MafiaVoteEvents(st, p))
                                              \cup Messages(g2, evs))
          ELSE /\ st' = r
               /\ Sent("night_action", Messages(r, MafiaVoteEvents(st, p)))

SecretTimerFire ==
    /\ Running(st)
    /\ Settled(st)
    /\ st.phaseTimer.armed
    /\ st.phaseTimer.cb = CbToNight
    /\ st.round < MaxRound
    /\ st' \in RunCallback(Stopped(st), st.phaseTimer.cb)
    /\ Sent(st.phaseTimer.cb, {})

SecretTicker ==
    /\ Running(st)
    /\ \/ /\ Settled(st)
          /\ st.timerCancel
          /\ \E g2 \in TickerExpired(st) :
                \E evs \in ResolveNightEvents(g2) :
                    st' = g2 /\ Sent("ticker_expire", IF st.registered THEN Messages(g2, evs) ELSE {})
       \/ /\ st.staleTickers > 0
          /\ st' = [st EXCEPT !.staleTickers = @ - 1]
          /\ Sent("ticker_exit", {})

SecretLeave(p) ==
    /\ Running(st)
    /\ p \in st.attached
    /\ st.departures < MaxDepartures
    /\ GetPlayer(st, p)
    /\ st' = [LeaveRoom(st, p) EXCEPT !.attached = st.attached \ {p},
                                      !.departures = st.departures + 1]
    /\ Sent("leave_room", {})

SecretTargets == {NoTarget, 1, 2, 6}

InitSecrets ==
    /\ st \in {InitState(s) : s \in SettingsChoices \cup {GodfatherSettings}}
    /\ last = [op |-> "init", resolved |-> "none", msgs |-> {}]

NextSecrets ==
    \/ \E p \in {1, 2} : SecretStartGame(p)
    \/ \E p \in Players, t \in SecretTargets : SecretNightAction(p, t)
    \/ SecretTimerFire
    \/ SecretTicker
    \/ \E p \in Departers : SecretLeave(p)

SpecSecrets == InitSecrets /\ [][NextSecrets]_vars

\* C30: an investigation result goes only to a detective of the game, a
\* mafia_vote only to players on team mafia, and a role_assigned with a
\* teammates list only to a player on team mafia: no town player gets a
\* mafia_vote or a teammates list, and nobody but a detective gets an
\* investigation result
C30_SecretsReachEntitledOnly ==
    \A x \in last.msgs :
        /\ x.secret = "investigation" => st.roles[x.to] = RoleDetective
        /\ x.type = "mafia_vote" =>
              st.roles[x.to] # "" /\ GetTeam(st.roles[x.to]) = TeamMafia
        /\ x.secret = "teammates" =>
              st.roles[x.to] # "" /\ GetTeam(st.roles[x.to]) = TeamMafia

\* the night was resolved after a mafia vote: the detective got the
\* investigation result and a town player got the public night_result
C30_Witness ==
    /\ \E x \in last.msgs : x.secret = "investigation"
    /\ \E x \in last.msgs : x.type = "mafia_vote"
    /\ \E x \in last.msgs :
          x.type = "night_result" /\ x.secret = NoSecret /\ GetTeam(st.roles[x.to]) = TeamTown

(***************************************************************************)
(* Specification SpecReject: night_action and day_vote messages, accepted  *)
(* or rejected, in the second night of a game and the day after it.  st is *)
(* the room and game record; last holds the sender, the target, the error  *)
(* code the router answered ("" when the message was accepted) and the     *)
(* connections the error was sent to.                                      *)
(***************************************************************************)
\* the switch of Router.handleNightAction over the error returned
NightErrorCode(e) ==
    IF e \in {"invalid_phase", "player_dead", "invalid_target"} THEN e
    ELSE IF e \in {"mafia_target_mafia", "cannot_target_self"} THEN "invalid_target"
    ELSE "action_failed"

\* the switch of Router.handleDayVote over the error returned
DayErrorCode(e) ==
    IF e \in {"invalid_phase", "player_dead", "invalid_target"} THEN e
    ELSE IF e = "cannot_target_self" THEN "invalid_target"
    ELSE "vote_failed"

handleNightAction_recordFirst(s, p, t) ==
    IF ~s.registered THEN {[s |-> s, err |-> "action_failed"]}
    ELSE IF NightActionError(s, p, t) = "mafia_target_mafia"
    THEN {[s |-> g, err |-> "invalid_target"] : g \in RecordNightAction(s, p, t)}
    ELSE IF NightActionError(s, p, t) # ""
    THEN {[s |-> s, err |-> NightErrorCode(NightActionError(s, p, t))]}
    ELSE {[s |-> g, err |-> ""] : g \in SubmitNightAction(s, p, t)}

\* Router.handleNightAction of a connection in the room, with a payload
\* that parses: the states it may leave and the error code it answers
handleNightAction(s, p, t) ==
    IF ~s.registered THEN {[s |-> s, err |-> "action_failed"]}
    ELSE IF NightActionError(s, p, t) # ""
    THEN {[s |-> s, err |-> NightErrorCode(NightActionError(s, p, t))]}
    ELSE {[s |-> g, err |-> ""] : g \in SubmitNightAction(s, p, t)}

\* Router.handleDayVote
handleDayVote(s, p, t) ==
    IF ~s.registered THEN {[s |-> s, err |-> "vote_failed"]}
    ELSE IF DayVoteError(s, p, t) # ""
    THEN {[s |-> s, err |-> DayErrorCode(DayVoteError(s, p, t))]}
    ELSE {[s |-> g, err |-> ""] : g \in SubmitDayVote(s, p, t)}

\* client.SendError puts the error to the sender's own queue
Replied(op, p, t, err) ==
    last' = [op |-> op, resolved |-> "none", player |-> p, target |-> t,
             err |-> err, to |-> IF err = "" THEN {} ELSE {p}]

RejectNightAction(p, t) ==
    /\ Running(st)
    /\ p \in st.attached
    /\ \E r \in handleNightAction(st, p, t) :
          st' = r.s /\ Replied("night_action", p, t, r.err)

RejectDayVote(p, t) ==
    /\ Running(st)
    /\ p \in st.attached
    /\ \E r \in handleDayVote(st, p, t) :
          st' = r.s /\ Replied("day_vote", p, t, r.err)

\* a player that is in no room
Stranger == MaxPlayers + 1

\* targets: nobody, a mafia member, the detective, a villager (dead in some
\* games) and somebody who is not in the room
RejectTargets == {NoTarget, 2, 4, 5, Stranger}

\* senders: two mafia members (the first dead in some games), the
\* detective and a villager (dead in some games); the doctor sends nothing,
\* so the night ends at its deadline
RejectSenders == {1, 2, 4, 5}

\* the second night, after a first day that eliminated a mafia member or a
\* villager
RejectEntries ==
    {SecondNight(InitState(DefaultSettings), k, d) :
        k \in 1..NumShuffles, d \in {1, 5}}

InitReject ==
    /\ st \in RejectEntries
    /\ last = [op |-> "init", resolved |-> "none"]

NextReject ==
    \/ \E p \in RejectSenders, t \in RejectTargets : RejectNightAction(p, t)
    \/ \E p \in RejectSenders, t \in RejectTargets : RejectDayVote(p, t)
    \/ (st.phaseTimer.cb # CbToNight /\ PhaseTimerFire)
    \/ TickerExpire

SpecReject == InitReject /\ [][NextReject]_vars

\* one of the listed reasons to reject night_action {target_id: t} of p
NightRejectReason(s, p, t) ==
    \/ s.phase # PhaseNight
    \/ p \notin s.players
    \/ s.status[p] # PlayerStatusAlive
    \/ ~CanActAtNight(s.roles[p])
    \/ t # NoTarget /\ (t \notin s.players \/ s.status[t] # PlayerStatusAlive)
    \/ t # NoTarget /\ GetTeam(s.roles[p]) = TeamMafia /\ GetTeam(s.roles[t]) = TeamMafia
    \/ t # NoTarget /\ s.roles[p] = RoleDetective /\ t = p

\* one of the listed reasons to reject day_vote {target_id: t} of p
DayRejectReason(s, p, t) ==
    \/ s.phase # PhaseDay
    \/ p \notin s.players
    \/ s.status[p] # PlayerStatusAlive
    \/ t # NoTarget /\ (t \notin s.players \/ s.status[t] # PlayerStatusAlive)

\* C31: a night_action or day_vote with one of the listed defects is
\* rejected, and a rejected one sends an error to its sender only and
\* leaves the night actions, the mafia target, the day votes, every status,
\* the phase and the timers as they were
C31_RejectionChangesNothing ==
    [][/\ (last'.op = "night_action" /\ st.registered
               /\ NightRejectReason(st, last'.player, last'.target)) => last'.err # ""
       /\ (last'.op = "day_vote" /\ st.registered
               /\ DayRejectReason(st, last'.player, last'.target)) => last'.err # ""
       /\ (last'.op \in {"night_action", "day_vote"} /\ last'.err # "") =>
             /\ last'.to = {last'.player}
             /\ st'.nightActions = st.nightActions
             /\ st'.dayVotes = st.dayVotes
             /\ st'.status = st.status
             /\ st'.phase = st.phase
             /\ st'.phaseTimer = st.phaseTimer
             /\ st'.looseTimers = st.looseTimers
             /\ st'.timerCancel = st.timerCancel
             /\ st'.staleTickers = st.staleTickers
             /\ st' = st]_vars

\* a mafia member's vote for a fellow mafia member has been rejected in a
\* night in which a vote is already recorded
C31_Witness ==
    /\ last.op = "night_action"
    /\ last.err = "invalid_target"
    /\ st.phase = PhaseNight
    /\ GetTeam(st.roles[last.player]) = TeamMafia
    /\ st.status[last.player] = PlayerStatusAlive
    /\ st.nightActions.mafiaTarget # NoTarget

(***************************************************************************)
(* Properties of the round counter                                         *)
(***************************************************************************)
\* the step enters a night of the running game
EntersNight == st'.registered /\ st'.phase = PhaseNight /\ st.phase # PhaseNight

\* C32: the round grows by exactly 1 at each night entry and changes
\* nowhere else during a game, and the first night of a game, entered from
\* the role reveal, has round 1
C32_FirstNightIsRoundOne ==
    [][/\ EntersNight => st'.round = st.round + 1
       /\ (EntersNight /\ st.phase = PhaseRoleReveal) => st'.round = 1
       /\ (~EntersNight /\ st'.gameId = st.gameId) => st'.round = st.round]_vars

(***************************************************************************)
(* Specification SpecRace: the reconnect timers of RoomService as tasks of *)
(* their own.  st.room is the record of a playing room; st.timers holds,   *)
(* for each timer created by time.AfterFunc and not yet finished, the      *)
(* player it was created for, its number and whether it has expired (its   *)
(* callback goroutine is started and has not yet taken the lock);          *)
(* st.rejoined holds the numbers of the timers whose disconnection was     *)
(* followed by a successful ReconnectPlayer.  Timer.Stop removes a timer   *)
(* that has not expired and has no effect on one that has.                 *)
(***************************************************************************)
\* bound on the disconnections of a behaviour
MaxDisconnects == 3

RacePlayers == {1, 2}

\* RoomService.ReconnectPlayer for a record that exists
ReconnectPlayer(s, p) ==
    [s EXCEPT !.disconnected = s.disconnected \ {p},
              !.isConnected = IF GetPlayer(s, p) THEN s.isConnected \cup {p}
                              ELSE s.isConnected]

\* dp.Timer.Stop() on the timers of player p
StopTimers(timers, p) == {t \in timers : t.player # p \/ t.fired}

\* RoomService.handleReconnectTimeout(code, p): the map lookup, then the
\* router's handler
RoomReconnectTimeout(s, p) ==
    IF p \notin s.disconnected THEN s
    ELSE handleReconnectTimeout([s EXCEPT !.disconnected = s.disconnected \ {p}], p)

RaceDid(op, p, timer) ==
    last' = [op |-> op, resolved |-> "none", player |-> p, timer |-> timer]

\* the connection of player p drops: MarkPlayerDisconnected
RaceDisconnect(p) ==
    /\ Running(st.room)
    /\ st.disconnects < MaxDisconnects
    /\ p \in st.room.isConnected
    /\ CanMarkDisconnected(st.room, p)
    /\ st' = [st EXCEPT !.room = MarkPlayerDisconnected(st.room, p),
                        !.timers = st.timers \cup
                            {[player |-> p, id |-> st.disconnects + 1, fired |-> FALSE]},
                        !.disconnects = st.disconnects + 1]
    /\ RaceDid("disconnect", p, st.disconnects + 1)

\* ReconnectPlayer(p) finds the record
RaceReconnect(p) ==
    /\ Running(st.room)
    /\ p \in st.room.disconnected
    /\ st' = [st EXCEPT !.room = ReconnectPlayer(st.room, p),
                        !.timers = StopTimers(st.timers, p),
                        !.rejoined = st.rejoined \cup
                            {t.id : t \in {x \in st.timers : x.player = p}}]
    /\ RaceDid("reconnect", p, 0)

\* the timer t expires: the runtime starts its callback
RaceTimerExpire(t) ==
    /\ t \in st.timers
    /\ ~t.fired
    /\ st' = [st EXCEPT !.timers = (st.timers \ {t}) \cup {[t EXCEPT !.fired = TRUE]}]
    /\ RaceDid("expire", t.player, t.id)

\* the callback of the expired timer t takes the lock and runs
RaceCallback(t) ==
    /\ Running(st.room)
    /\ t \in st.timers
    /\ t.fired
    /\ st' = [st EXCEPT !.room = RoomReconnectTimeout(st.room, t.player),
                        !.timers = st.timers \ {t}]
    /\ RaceDid("reconnect_timeout", t.player, t.id)

InitRace ==
    /\ st = [room |-> FirstNight(InitState(DefaultSettings), 1),
             timers |-> {}, disconnects |-> 0, rejoined |-> {}]
    /\ last = [op |-> "init", resolved |-> "none", player |-> 0, timer |-> 0]

NextRace ==
    \/ \E p \in RacePlayers : RaceDisconnect(p)
    \/ \E p \in RacePlayers : RaceReconnect(p)
    \/ \E t \in st.timers : RaceTimerExpire(t)
    \/ \E t \in st.timers : RaceCallback(t)

SpecRace == InitRace /\ [][NextRace]_vars

\* C33: the callback of a timer whose disconnection ended in a successful
\* reconnect removes nobody from the room and leaves the host as it is
C33_StaleTimerIsNoOp ==
    [][(last'.op = "reconnect_timeout" /\ last'.timer \in st.rejoined) =>
            /\ st'.room.players = st.room.players
            /\ st'.room.isHost = st.room.isHost]_vars

(***************************************************************************)
(* Specification SpecOrder: the order of frames.  Messages are numbered as *)
(* they are created.  st.send[c] is the content of the queue Client.send   *)
(* of connection c, st.written[c] what WritePump has written to the peer,  *)
(* st.broadcast the content of Hub.broadcast, st.turn the broadcast        *)
(* Hub.Run is delivering and the members it has still to visit, st.log the *)
(* history of all enqueues to connections (message, connection) and        *)
(* st.dequeued the history of the broadcasts Hub.Run has received.         *)
(***************************************************************************)
\* bound on the messages created in a behaviour
MaxMessages == 3

NoTurn == [active |-> FALSE, msg |-> 0, todo |-> {}]

TakeFront_newestFirst(q, k) == [i \in 1..k |-> q[Len(q) + 1 - i]]

\* the k receives `<-c.send` of one round of WritePump
TakeFront(q, k) == SubSeq(q, 1, k)

\* select { case c.send <- data: default: } with message m
EnqueueMsg(o, c, m) ==
    IF Len(o.send[c]) < SendCap
    THEN [o EXCEPT !.send[c] = Append(o.send[c], m),
                   !.log = Append(o.log, [msg |-> m, to |-> c])]
    ELSE o

OrderDid(op, c) ==
    last' = [op |-> op, resolved |-> "none", player |-> c]

\* Hub.BroadcastToRoom(code, msg, nil) from a handler or a timer
OrderBroadcast(code) ==
    /\ st.created < MaxMessages
    /\ Len(st.broadcast) < SendCap
    /\ st' = [st EXCEPT !.created = st.created + 1,
                        !.broadcast = Append(st.broadcast,
                                             [msg |-> st.created + 1, room |-> code])]
    /\ OrderDid("broadcast", NoClient)

\* Hub.Run receives from Hub.broadcast and calls broadcastToRoom
OrderDequeue ==
    /\ ~st.turn.active
    /\ st.broadcast # <<>>
    /\ st' = [st EXCEPT !.broadcast = Tail(st.broadcast),
                        !.dequeued = Append(st.dequeued, Head(st.broadcast).msg),
                        !.turn = [active |-> TRUE, msg |-> Head(st.broadcast).msg,
                                  todo |-> st.members[Head(st.broadcast).room]]]
    /\ OrderDid("dequeue", NoClient)

\* one turn of the range loop of broadcastToRoom
OrderDeliver(c) ==
    /\ st.turn.active
    /\ c \in st.turn.todo
    /\ LET o == [st EXCEPT !.turn.todo = st.turn.todo \ {c}]
       IN  st' = IF Len(st.send[c]) < SendCap THEN EnqueueMsg(o, c, st.turn.msg)
                 ELSE [o EXCEPT !.unregistering = st.unregistering \cup {c}]
    /\ OrderDid("deliver", c)

\* broadcastToRoom returns
OrderTurnEnd ==
    /\ st.turn.active
    /\ st.turn.todo = {}
    /\ st' = [st EXCEPT !.turn = NoTurn]
    /\ OrderDid("broadcast_done", NoClient)

\* Hub.Run receives c from Hub.unregister
OrderUnregister(c) ==
    /\ ~st.turn.active
    /\ c \in st.unregistering
    /\ st' = [st EXCEPT !.unregistering = st.unregistering \ {c},
                        !.members = [r \in RoomCodes |-> st.members[r] \ {c}]]
    /\ OrderDid("unregister", c)

\* Client.Send of a reply or a targeted event to connection c
OrderSend(c) ==
    /\ st.created < MaxMessages
    /\ st' = [EnqueueMsg(st, c, st.created + 1) EXCEPT !.created = st.created + 1]
    /\ OrderDid("send", c)

\* one round of Client.WritePump of connection c: the first message and
\* those of the k - 1 queued behind it that it counted
OrderWrite(c, k) ==
    /\ k \in 1..Len(st.send[c])
    /\ st' = [st EXCEPT !.written[c] = st.written[c] \o TakeFront(st.send[c], k),
                        !.send[c] = SubSeq(st.send[c], k + 1, Len(st.send[c]))]
    /\ OrderDid("write", c)

InitOrder ==
    /\ st = [send |-> [c \in HubClients |-> <<>>],
             written |-> [c \in HubClients |-> <<>>],
             members |-> [r \in RoomCodes |-> IF r = "A" THEN {1, 2} ELSE {3}],
             broadcast |-> <<>>, turn |-> NoTurn, unregistering |-> {},
             log |-> <<>>, dequeued |-> <<>>, created |-> 0]
    /\ last = [op |-> "init", resolved |-> "none", player |-> NoClient]

NextOrder ==
    \/ \E r \in RoomCodes : OrderBroadcast(r)
    \/ OrderDequeue
    \/ \E c \in HubClients : OrderDeliver(c)
    \/ OrderTurnEnd
    \/ \E c \in HubClients : OrderUnregister(c)
    \/ \E c \in {1} : OrderSend(c)
    \/ \E c \in HubClients, k \in 1..SendCap : OrderWrite(c, k)

SpecOrder == InitOrder /\ [][NextOrder]_vars

\* the messages enqueued to connection c, in the order of their enqueue
EnqueuedTo(c) ==
    LET mine == SelectSeq(st.log, LAMBDA e : e.to = c)
    IN  [i \in 1..Len(mine) |-> mine[i].msg]

\* C34: what has been written to each connection is the beginning of what
\* was enqueued to it, in the same order; and of two broadcasts dequeued
\* one after the other, every enqueue of the first precedes every enqueue
\* of the second
C34_FramesKeepOrder ==
    /\ \A c \in HubClients :
          /\ Len(st.written[c]) <= Len(EnqueuedTo(c))
          /\ \A i \in 1..Len(st.written[c]) : st.written[c][i] = EnqueuedTo(c)[i]
    /\ \A i, j \in 1..Len(st.dequeued) :
          i < j =>
             \A x, y \in 1..Len(st.log) :
                (st.log[x].msg = st.dequeued[i] /\ st.log[y].msg = st.dequeued[j]) => x < y

\* two broadcasts to the same room have reached both members and one of
\* them has been written both
C34_Witness ==
    /\ Len(st.dequeued) = 2
    /\ \A c \in {1, 2} : EnqueuedTo(c) = st.dequeued
    /\ st.written[1] = st.dequeued

(***************************************************************************)
(* Resolution once per phase, in specification Spec                        *)
(***************************************************************************)
\* C35: the night resolver runs only on a game whose phase is night and
\* the day resolver only on a game whose phase is day, so each phase has
\* one result, whichever way the deadline and the submissions interleave
C35_ResolvedOncePerPhase ==
    [][/\ last'.resolved = "night" => st.phase = PhaseNight
       /\ last'.resolved = "day" => st.phase = PhaseDay]_vars

(***************************************************************************)
(* Specification SpecClosed: the hub of SpecHub, started when connection 1 *)
(* has joined room "A" and its peer, which does not read, has sent two     *)
(* frames that do not parse: the queue of the connection holds the two     *)
(* error replies.  Hub.Run closes Client.send when it removes a connection *)
(* from Hub.clients, so the queue of c is closed iff c is not in           *)
(* st.clients.                                                             *)
(***************************************************************************)
InitClosed ==
    /\ st = Enqueue(Enqueue(HubJoin([clients |-> HubClients, reading |-> HubClients,
                                     members |-> [r \in RoomCodes |-> {}],
                                     send |-> [c \in HubClients |-> 0],
                                     broadcast |-> <<>>, iter |-> NoIter,
                                     unregistering |-> {}, frames |-> 0],
                                    1, "A"), 1), 1)
    /\ last = [op |-> "init", resolved |-> "none", player |-> NoClient,
               room |-> NoRoom, err |-> ""]

SpecClosed == InitClosed /\ [][NextHub]_vars

\* C36: no message is put on the queue of a connection after the hub has
\* closed that queue: not by the error reply of the connection's own read
\* loop, not by a room broadcast, not by a broadcast to a subset of players
C36_NoSendOnClosedQueue ==
    [][(last'.op \in {"invalid_message", "deliver", "to_players"})
          => last'.player \in st.clients]_vars

(***************************************************************************)
(* The mafia target and the latest votes, under SpecNight                  *)
(***************************************************************************)
\* the targets with the largest number of non-empty votes now recorded
TopTargets(s) ==
    LET count(t) == Cardinality({m \in NonEmptyVoters(s) : s.nightActions.mafiaVotes[m] = t})
        voted == {s.nightActions.mafiaVotes[m] : m \in NonEmptyVoters(s)}
    IN  {t \in voted : \A u \in voted : count(u) <= count(t)}

\* C37: after every accepted vote of a mafia member the mafia target
\* follows the votes now recorded: the godfather's when it is not empty,
\* else a target with the most non-empty votes, and no target at all when
\* no recorded vote names somebody; a night resolved without a non-empty
\* vote kills nobody
C37_TargetFollowsLatestVotes ==
    [][(st'.registered /\ ~st'.nightActions.nil /\ last'.op = "night_action") =>
          /\ GodfatherVoters(st') # {} =>
                st'.nightActions.mafiaTarget \in
                    {st'.nightActions.mafiaVotes[g] : g \in GodfatherVoters(st')}
          /\ (GodfatherVoters(st') = {} /\ NonEmptyVoters(st') # {}) =>
                st'.nightActions.mafiaTarget \in TopTargets(st')
          /\ NonEmptyVoters(st') = {} =>
                /\ st'.nightActions.mafiaTarget = NoTarget
                /\ NightResolved => st'.lastNightResult.killedID = NoTarget]_vars

(***************************************************************************)
(* Events and room membership, under SpecSecrets                           *)
(***************************************************************************)
\* C38: every message of a game event, targeted or broadcast, goes to a
\* connection that is in the room when it is delivered: a player who has
\* left the room gets no further event of the game
C38_EventsStayInRoom ==
    \A x \in last.msgs : x.to \in st.attached /\ GetPlayer(st, x.to)

(***************************************************************************)
(* Specification SpecRestart: start_game while a game runs.  The game      *)
(* stands at the entry of its first night; the host may send start_game    *)
(* again, once more than MaxStarts allows in Spec.                         *)
(***************************************************************************)
\* start_game from the connection of player p while the service holds a
\* game of the room (Router.handleStartGame, GameService.StartGame)
StartGameAgain(p) ==
    /\ Running(st)
    /\ p \in st.attached
    /\ st.registered
    /\ st.gameId <= MaxStarts
    /\ StartGameError(st, p) = ""
    /\ \E k \in 1..NumShuffles : st' = StartGame(st, k)
    /\ Did("start_game", "none")

InitRestart ==
    /\ st \in {FirstNight(InitState(DefaultSettings), k) : k \in 1..NumShuffles}
    /\ last = [op |-> "init", resolved |-> "none"]

NextRestart ==
    \/ \E p \in Players : StartGameAgain(p)
    \/ \E p \in Players : NightActionMsg(p, NightCandidate)
    \/ \E p \in Players : DayVoteMsg(p, DayCandidate)
    \/ PhaseTimerFire
    \/ TickerExpire
    \/ StaleTickerExpire
    \/ StaleTickerExit

SpecRestart == InitRestart /\ [][NextRestart]_vars

\* C39: start_game is accepted only in a waiting room; while the room is
\* playing the roles and the game stay the same, and a start_game message
\* leaves the phase, the round, the night actions and the day votes alone
C39_StartOnlyWhileWaiting ==
    [][/\ last'.op = "start_game" => st.roomState = RoomStateWaiting
       /\ (st.roomState = RoomStatePlaying /\ st'.roomState = RoomStatePlaying)
             => st'.roles = st.roles /\ st'.gameId = st.gameId
       /\ (last'.op = "start_game" /\ st.roomState = RoomStatePlaying)
             => /\ st'.phase = st.phase
                /\ st'.round = st.round
                /\ st'.nightActions = st.nightActions
                /\ st'.dayVotes = st.dayVotes]_vars

(***************************************************************************)
(* Specification SpecLive: one game from the entry of its first night,     *)
(* with the timer tasks scheduled fairly.  A timer that is armed fires     *)
(* unless it is stopped first, and a ticker goroutine that can run does    *)
(* run: the Go runtime starves neither.  Nothing is assumed about the      *)
(* players, who may send messages or stay silent for ever.                 *)
(*                                                                         *)
(* Timing assumption: a timer that was deleted from phaseTimers without    *)
(* Stop was armed, with a delay of 3 s, before the timer that replaced it  *)
(* in the map; it fires before any timer or ticker armed after that one,   *)
(* whose deadline is 3 s or more later.                                    *)
(***************************************************************************)
TimersInOrder(s) ==
    \/ \A cb \in Callbacks : s.looseTimers[cb] = 0
    \/ s.phaseTimer.armed /\ s.looseTimers[s.phaseTimer.cb] > 0

LivePhaseTimerFire == TimersInOrder(st) /\ PhaseTimerFire

LiveTickerExpire == TimersInOrder(st) /\ TickerExpire

InitLive ==
    /\ st = FirstNight(InitState(DefaultSettings), 1)
    /\ last = [op |-> "init", resolved |-> "none"]

NextLive ==
    \/ \E p \in Players : \E t \in NightChoices(p) : NightActionMsg(p, t)
    \/ \E p \in Players : \E t \in DayChoices(p) : DayVoteMsg(p, t)
    \/ LivePhaseTimerFire
    \/ LooseTimerFire(CbToDay)
    \/ LiveTickerExpire
    \/ StaleTickerExpire
    \/ StaleTickerExit

\* the steps of the timers and of the ticker goroutines
TimerTasks ==
    \/ LivePhaseTimerFire
    \/ LooseTimerFire(CbToDay)
    \/ LiveTickerExpire
    \/ StaleTickerExpire
    \/ StaleTickerExit

\* fairness: as long as some timer task can take a step, one of them does
SpecLive == InitLive /\ [][NextLive]_vars /\ WF_vars(TimerTasks)

\* C40: with the timer tasks scheduled fairly, a game in phase night
\* reaches night_result and a game in phase day reaches day_result, whether
\* or not any player acts or votes, unless the game is ended and removed
C40_PhasesGetResolved ==
    /\ (st.registered /\ st.phase = PhaseNight)
          ~> (st.phase = PhaseNightResult \/ ~st.registered)
    /\ (st.registered /\ st.phase = PhaseDay)
          ~> (st.phase = PhaseDayResult \/ ~st.registered)

\* the day was resolved by its timer although no vote was cast, after a
\* night that the ticker resolved although nobody had acted
C40_Witness ==
    /\ last.op = CbResolveDay
    /\ st.phase = PhaseDayResult
    /\ \A p \in Players : st.dayVotes.votes[p] = Unset
    /\ st.acted = {}

====
